---- MODULE Spec2Model ----
(***************************************************************************)
(* Model of the Markdown structural parser and heading-id assignment of    *)
(* the markdown-to-HTML viewer: slugify, cleanMarkdown, parseMarkdownByH1, *)
(* parseTOC (src/utils/markdownUtils.ts), getUniqueId                      *)
(* (src/components/MarkdownRenderer.tsx) and the header-id script of the   *)
(* exported artifact (src/utils/exportUtils.ts).                           *)
(*                                                                         *)
(* A JavaScript string is a sequence of characters; a character is a       *)
(* one-character TLA+ string, or a token naming a character that has no    *)
(* printable ASCII form ("LF", "CR", "TAB", "U00A0", "U4F60", ...).        *)
(***************************************************************************)
EXTENDS Integers, Sequences, FiniteSets, TLC

VARIABLES
    \* slugify (markdownUtils.ts:8-16): the argument of the first call, the
    \* value flowing through the chain, the stage reached, the number of the
    \* call (1, 2) and the result of the first call.
    slugIn, slugVal, slugStage, slugPass, slugFirst,
    \* parseTOC (markdownUtils.ts:89-126): lines, the index of the next line
    \* of lines.forEach, toc, the Map slugCounts, and whether it has returned.
    tocLines, tocPos, toc, slugCounts, tocDone,
    \* parseMarkdownByH1 (markdownUtils.ts:38-83): lines, the loop index i,
    \* sections, currentTitle, currentContentLines, sectionIndex, whether it
    \* has returned and whether sections.shift() (line 79) ran.
    h1Lines, h1Pos, sections, currentTitle, currentContentLines, sectionIndex,
    h1Done, h1Dropped,
    \* Heading ids: the layout mode, the heading texts of each rendered block,
    \* the ids MarkdownRenderer gave per block (Unset: block not rendered),
    \* the ids, the slugCounts object and the position of headers.forEach of
    \* the export script (exportUtils.ts:249-267).
    viewMode, blocks, liveIds, exportIds, exportCounts, exportPos,
    \* One heading with emphasis, its id from parseTOC and from the renderer.
    heading, tocId, liveId,
    \* The export: the layout mode and the ParsedDoc of App (part_000:10-13,
    \* Null: no document), the last downloaded artifact, the elements of the
    \* opened artifact in document order, the scrollTop of its main pane, the
    \* id last given to switchSection and the last event ("none": the
    \* artifact is not open).
    appViewMode, doc, download, dom, scrollTop, lastClicked, lastEvent,
    \* Repeated passes over one document: the plain texts of its headings, and
    \* for every pass started (a parseTOC call, a MarkdownRenderer render, a
    \* run of the header-id script) its counter map, position and ids.
    passHeads, passes,
    \* cleanMarkdown (markdownUtils.ts:23-33): the heading text given, by its
    \* parts, the value flowing through the chain and the stage reached.
    cleanIn, cleanVal, cleanStage,
    \* Alerts: the children of one blockquote as the Markdown formatter parses
    \* them, and what remarkAlerts (MarkdownRenderer.tsx:14-44) and the callout
    \* script (exportUtils.ts:285-302) make of it (Null: not run).
    quote, liveQuote, exportQuote,
    \* Pane resize.  App (part_000:19-49, 116-119): sidebarWidth, isResizing,
    \* the isResizing value captured by each handleMouseMove/handleMouseUp
    \* pair installed on document; whether a mouse-down on the divider has
    \* had no mouse-up yet; the last pointer event.  Artifact
    \* (exportUtils.ts:369-402): window.innerWidth, the width of the sidebar,
    \* x and w of the resizer script, the listeners installed on document,
    \* and the same two observations.
    sidebarWidth, isResizing, appHandlers, appHeld, appEvent, innerWidth, expWidth, dragX, dragW, expListeners, expHeld, expEvent,
    \* The markdown-raw block (exportUtils.ts:5-12, 451, 495, 244): the text
    \* given to escapeHtml, the markup written into the block, the
    \* textContent the script of the artifact reads, and the stage reached.
    blockText, escaped, readBack, escStage,
    \* App (part_000:10-16, 52-193): viewMode, doc and activeSectionId (Null or
    \* a one-element sequence), the file reads in flight with the viewMode
    \* their onload closure captured, the geometry of the main pane (the
    \* offsets of the elements of the TocItems in the content, scrollHeight,
    \* clientHeight) and its scrollTop; whether a continuous artifact of the
    \* loaded document is open, the hrefs of its nav items with the class
    \* active and the scrollTop of its main pane; the last event.
    liveViewMode, liveDoc, activeSectionId, reads, layout, mainScrollTop, artifactOpen, navActive, artScrollTop, liveEvent

slugVars == <<slugIn, slugVal, slugStage, slugPass, slugFirst>>

tocVars == <<tocLines, tocPos, toc, slugCounts, tocDone>>

h1Vars == <<h1Lines, h1Pos, sections, currentTitle, currentContentLines,
            sectionIndex, h1Done, h1Dropped>>

idVars == <<viewMode, blocks, liveIds, exportIds, exportCounts, exportPos>>

emVars == <<heading, tocId, liveId>>

exportVars ==
    <<appViewMode, doc, download, dom, scrollTop, lastClicked, lastEvent>>

passVars ==
    <<passHeads, passes>>

cleanVars ==
    <<cleanIn, cleanVal, cleanStage>>

alertVars ==
    <<quote, liveQuote, exportQuote>>

resizeVars ==
    <<sidebarWidth, isResizing, appHandlers, appHeld, appEvent, innerWidth,
      expWidth, dragX, dragW, expListeners, expHeld, expEvent>>

escapeVars ==
    <<blockText, escaped, readBack, escStage>>

liveVars ==
    <<liveViewMode, liveDoc, activeSectionId, reads, layout, mainScrollTop,
      artifactOpen, navActive, artScrollTop, liveEvent>>

vars ==
    <<slugVars, tocVars, h1Vars, idVars, emVars, exportVars, passVars,
      cleanVars, alertVars, resizeVars, escapeVars, liveVars>>

\* Each specification runs one component; the variables of the others stay
\* at these values.
SlugIdle ==
    /\ slugIn = <<>>
    /\ slugVal = <<>>
    /\ slugStage = "idle"
    /\ slugPass = 0
    /\ slugFirst = <<>>

TocIdle ==
    /\ tocLines = <<>>
    /\ tocPos = 0
    /\ toc = <<>>
    /\ slugCounts = <<>>
    /\ tocDone = FALSE

H1Idle ==
    /\ h1Lines = <<>>
    /\ h1Pos = 0
    /\ sections = <<>>
    /\ currentTitle = <<>>
    /\ currentContentLines = <<>>
    /\ sectionIndex = 0
    /\ h1Done = FALSE
    /\ h1Dropped = FALSE

Unset == <<"unset">>

\* null: no document, no artifact; a present one is a sequence of one record.
Null == <<>>

IdsIdle ==
    /\ viewMode = "sectioned"
    /\ blocks = <<>>
    /\ liveIds = <<>>
    /\ exportIds = <<>>
    /\ exportCounts = <<>>
    /\ exportPos = <<0, 0>>

EmIdle ==
    /\ heading = <<>>
    /\ tocId = Unset
    /\ liveId = Unset

ExportIdle ==
    /\ appViewMode = "sectioned"
    /\ doc = Null
    /\ download = Null
    /\ dom = <<>>
    /\ scrollTop = 0
    /\ lastClicked = Unset
    /\ lastEvent = "none"

PassIdle ==
    /\ passHeads = <<>>
    /\ passes = <<>>

CleanIdle ==
    /\ cleanIn = <<>>
    /\ cleanVal = <<>>
    /\ cleanStage = "idle"

AlertIdle ==
    /\ quote = <<>>
    /\ liveQuote = Null
    /\ exportQuote = Null

ResizeIdle ==
    /\ sidebarWidth = 0
    /\ isResizing = FALSE
    /\ appHandlers = {}
    /\ appHeld = FALSE
    /\ appEvent = "none"
    /\ innerWidth = 0
    /\ expWidth = 0
    /\ dragX = 0
    /\ dragW = 0
    /\ expListeners = {}
    /\ expHeld = FALSE
    /\ expEvent = "none"

EscapeIdle ==
    /\ blockText = <<>>
    /\ escaped = <<>>
    /\ readBack = <<>>
    /\ escStage = "idle"

LiveIdle ==
    /\ liveViewMode = "sectioned"
    /\ liveDoc = <<>>
    /\ activeSectionId = <<>>
    /\ reads = {}
    /\ layout = [tops |-> <<>>, scrollHeight |-> 0, clientHeight |-> 0]
    /\ mainScrollTop = 0
    /\ artifactOpen = FALSE
    /\ navActive = {}
    /\ artScrollTop = 0
    /\ liveEvent = "none"

notSlug ==
    <<tocVars, h1Vars, idVars, emVars, exportVars, passVars, cleanVars,
      alertVars, resizeVars, escapeVars, liveVars>>

notToc ==
    <<slugVars, h1Vars, idVars, emVars, exportVars, passVars, cleanVars,
      alertVars, resizeVars, escapeVars, liveVars>>

notH1 ==
    <<slugVars, tocVars, idVars, emVars, exportVars, passVars, cleanVars,
      alertVars, resizeVars, escapeVars, liveVars>>

notIds ==
    <<slugVars, tocVars, h1Vars, emVars, exportVars, passVars, cleanVars,
      alertVars, resizeVars, escapeVars, liveVars>>

notEm ==
    <<slugVars, tocVars, h1Vars, idVars, exportVars, passVars, cleanVars,
      alertVars, resizeVars, escapeVars, liveVars>>

notExport ==
    <<slugVars, tocVars, h1Vars, idVars, emVars, passVars, cleanVars,
      alertVars, resizeVars, escapeVars, liveVars>>

notPass ==
    <<slugVars, tocVars, h1Vars, idVars, emVars, exportVars, cleanVars,
      alertVars, resizeVars, escapeVars, liveVars>>

notClean ==
    <<slugVars, tocVars, h1Vars, idVars, emVars, exportVars, passVars,
      alertVars, resizeVars, escapeVars, liveVars>>

notAlert ==
    <<slugVars, tocVars, h1Vars, idVars, emVars, exportVars, passVars,
      cleanVars, resizeVars, escapeVars, liveVars>>

notResize ==
    <<slugVars, tocVars, h1Vars, idVars, emVars, exportVars, passVars,
      cleanVars, alertVars, escapeVars, liveVars>>

notEscape ==
    <<slugVars, tocVars, h1Vars, idVars, emVars, exportVars, passVars,
      cleanVars, alertVars, resizeVars, liveVars>>

notLive ==
    <<slugVars, tocVars, h1Vars, idVars, emVars, exportVars, passVars,
      cleanVars, alertVars, resizeVars, escapeVars>>

----------------------------------------------------------------------------
(* Characters and the character classes of the regular expressions.        *)

LF == "LF"
CR == "CR"
TAB == "TAB"
NBSP == "U00A0"
LSEP == "U2028"
CJK1 == "U4F60"
CJK2 == "U4E16"
UpperEAcute == "U00C9"
BT == "BT"
LowerEAcute == "U00E9"

LowerLetters ==
    <<"a","b","c","d","e","f","g","h","i","j","k","l","m",
      "n","o","p","q","r","s","t","u","v","w","x","y","z">>

UpperLetters ==
    <<"A","B","C","D","E","F","G","H","I","J","K","L","M",
      "N","O","P","Q","R","S","T","U","V","W","X","Y","Z">>

Range(f) == { f[x] : x \in DOMAIN f }

Lower == Range(LowerLetters)

Upper == Range(UpperLetters)

Digit == {"0","1","2","3","4","5","6","7","8","9"}

\* \w of a JavaScript regular expression without the u flag.
WordChar == Lower \cup Upper \cup Digit \cup {"_"}

\* \s of a JavaScript regular expression, also the set String.prototype.trim strips.
WhiteSpace == {" ", TAB, LF, CR, NBSP, LSEP}

\* The characters '.' does not match (no s flag).
LineTerminator == {LF, CR, LSEP}

\* The modelled characters of the range \u0080-\uFFFF.
ExtUnicode == {NBSP, LSEP, CJK1, CJK2, UpperEAcute, LowerEAcute}

AsciiPunct == {"!", "#", "*", "[", "]", "(", ")", BT, ".", "?", ":", "/"}

LowerOf ==
    [c \in Upper \cup {UpperEAcute} |->
        IF c = UpperEAcute THEN LowerEAcute
        ELSE LowerLetters[CHOOSE i \in 1..26 : UpperLetters[i] = c]]

\* Sequences over S of length at most n.
SeqsUpTo(S, n) == UNION { [1..k -> S] : k \in 0..n }

----------------------------------------------------------------------------
(* slugify, src/utils/markdownUtils.ts:8-16, stage by stage.               *)

ToLowerCase(s) == [i \in 1..Len(s) |-> IF s[i] \in DOMAIN LowerOf THEN LowerOf[s[i]] ELSE s[i]]

RECURSIVE TrimStart(_)
TrimStart(s) ==
    IF s # <<>> /\ Head(s) \in WhiteSpace THEN TrimStart(Tail(s)) ELSE s

RECURSIVE TrimEnd(_)
TrimEnd(s) ==
    IF s # <<>> /\ s[Len(s)] \in WhiteSpace THEN TrimEnd(SubSeq(s, 1, Len(s) - 1)) ELSE s

Trim(s) == TrimEnd(TrimStart(s))

\* Mutant: every white-space character becomes a hyphen of its own.
HyphenateEachWhiteSpace(s) == [i \in 1..Len(s) |-> IF s[i] \in WhiteSpace THEN "-" ELSE s[i]]

\* .replace(/\s+/g, '-'): every maximal run of white space becomes one hyphen.
RECURSIVE HyphenateWhiteSpace(_)
HyphenateWhiteSpace(s) ==
    IF s = <<>> THEN <<>>
    ELSE IF Head(s) \in WhiteSpace
         THEN <<"-">> \o HyphenateWhiteSpace(TrimStart(s))
         ELSE <<Head(s)>> \o HyphenateWhiteSpace(Tail(s))

SlugKept(c) == c \in WordChar \/ c = "-" \/ c \in ExtUnicode

\* Mutant: the removed characters leave a space behind.
StripNonSlugSpaced(s) == [i \in 1..Len(s) |-> IF SlugKept(s[i]) THEN s[i] ELSE " "]

\* .replace(/[^\w\-\u0080-\uFFFF]+/g, '')
StripNonSlug(s) == SelectSeq(s, SlugKept)

slugify(text) == StripNonSlug(HyphenateWhiteSpace(Trim(ToLowerCase(text))))

----------------------------------------------------------------------------
(* String helpers.                                                         *)

Min(S) == CHOOSE x \in S : \A y \in S : x <= y

Max(S) == CHOOSE x \in S : \A y \in S : x >= y

\* Length of the longest run of characters of S starting at position p of s.
RunIn(s, p, S) ==
    LET stops == { i \in p..Len(s) : s[i] \notin S }
    IN  IF p > Len(s) THEN 0
        ELSE IF stops = {} THEN Len(s) - p + 1 ELSE Min(stops) - p

\* Length of the longest run of characters outside S starting at position p of s.
RunNotIn(s, p, S) ==
    LET stops == { i \in p..Len(s) : s[i] \in S }
    IN  IF p > Len(s) THEN 0
        ELSE IF stops = {} THEN Len(s) - p + 1 ELSE Min(stops) - p

At(s, p) == IF p \in 1..Len(s) THEN s[p] ELSE "EOS"

\* Number -> decimal string, as string concatenation of a number does.
RECURSIVE NumToStr(_)
NumToStr(n) ==
    LET d == <<"0","1","2","3","4","5","6","7","8","9">>[(n % 10) + 1]
    IN  IF n < 10 THEN <<d>> ELSE NumToStr(n \div 10) \o <<d>>

\* text.split('\n')
RECURSIVE Split(_)
Split(text) ==
    LET n == RunNotIn(text, 1, {LF})
    IN  IF n = Len(text) THEN <<text>>
        ELSE <<SubSeq(text, 1, n)>> \o Split(SubSeq(text, n + 2, Len(text)))

\* lines.join('\n')
RECURSIVE Join(_)
Join(ls) ==
    IF ls = <<>> THEN <<>>
    ELSE IF Len(ls) = 1 THEN ls[1]
    ELSE ls[1] \o <<LF>> \o Join(Tail(ls))

----------------------------------------------------------------------------
(* cleanMarkdown, src/utils/markdownUtils.ts:23-33: four global regular    *)
(* expression replacements, each by its first capture group.  A match      *)
(* record says whether the expression matches at position p, the capture   *)
(* group and the position after the match.                                 *)

NoMatch == [ok |-> FALSE, group |-> <<>>, next |-> 0]

\* /\[([^\]]+)\]\([^)]+\)/ at position p
LinkMatch(s, p) ==
    LET r1 == RunNotIn(s, p + 1, {"]"})
        q  == p + 1 + r1
        r2 == RunNotIn(s, q + 2, {")"})
        e  == q + 2 + r2
    IN  IF /\ At(s, p) = "["
           /\ r1 >= 1
           /\ At(s, q) = "]"
           /\ At(s, q + 1) = "("
           /\ r2 >= 1
           /\ At(s, e) = ")"
        THEN [ok |-> TRUE, group |-> SubSeq(s, p + 1, q - 1), next |-> e + 1]
        ELSE NoMatch

\* /!\[([^\]]*)\]\([^)]+\)/ at position p
ImageMatch(s, p) ==
    LET r1 == RunNotIn(s, p + 2, {"]"})
        q  == p + 2 + r1
        r2 == RunNotIn(s, q + 2, {")"})
        e  == q + 2 + r2
    IN  IF /\ At(s, p) = "!"
           /\ At(s, p + 1) = "["
           /\ At(s, q) = "]"
           /\ At(s, q + 1) = "("
           /\ r2 >= 1
           /\ At(s, e) = ")"
        THEN [ok |-> TRUE, group |-> SubSeq(s, p + 2, q - 1), next |-> e + 1]
        ELSE NoMatch

\* /`([^`]+)`/ at position p
CodeMatch(s, p) ==
    LET r == RunNotIn(s, p + 1, {BT})
        e == p + 1 + r
    IN  IF At(s, p) = BT /\ r >= 1 /\ At(s, e) = BT
        THEN [ok |-> TRUE, group |-> SubSeq(s, p + 1, e - 1), next |-> e + 1]
        ELSE NoMatch

EmphasisMarkers == {"*", "_"}

\* /[*_]{1,3}([^*_]+)[*_]{1,3}/ at position p: the opening run must be the
\* whole run of markers from p (at most three), the group is the longest run
\* of other characters, the closing run takes up to three markers.
EmphasisMatch(s, p) ==
    LET m == RunIn(s, p, EmphasisMarkers)
        r == RunNotIn(s, p + m, EmphasisMarkers)
        c == RunIn(s, p + m + r, EmphasisMarkers)
        k == IF c > 3 THEN 3 ELSE c
    IN  IF m \in 1..3 /\ r >= 1 /\ c >= 1
        THEN [ok |-> TRUE, group |-> SubSeq(s, p + m, p + m + r - 1), next |-> p + m + r + k]
        ELSE NoMatch

RegexMatch(kind, s, p) ==
    CASE kind = "link" -> LinkMatch(s, p)
      [] kind = "image" -> ImageMatch(s, p)
      [] kind = "code" -> CodeMatch(s, p)
      [] kind = "emphasis" -> EmphasisMatch(s, p)

\* s.replace(/.../g, '$1') from position p on: leftmost match first, the
\* search resumes after the match.
RECURSIVE ReplaceByGroup(_, _, _)
ReplaceByGroup(kind, s, p) ==
    IF p > Len(s) THEN <<>>
    ELSE LET mt == RegexMatch(kind, s, p)
         IN  IF mt.ok
             THEN mt.group \o ReplaceByGroup(kind, s, mt.next)
             ELSE <<s[p]>> \o ReplaceByGroup(kind, s, p + 1)

cleanMarkdown(text) ==
    ReplaceByGroup("emphasis",
        ReplaceByGroup("code",
            ReplaceByGroup("image",
                ReplaceByGroup("link", text, 1), 1), 1), 1)

----------------------------------------------------------------------------
(* parseTOC, src/utils/markdownUtils.ts:89-126.                            *)

\* headerRegex /^(#{1,3})\s+(.+)$/ on one line: the hashes are the whole
\* leading run of '#', \s+ is greedy and gives back characters until the
\* rest of the line is one or more characters '.' matches.
headerRegex(line) ==
    LET h  == RunIn(line, 1, {"#"})
        ks == { k \in 1..RunIn(line, h + 1, WhiteSpace) :
                  /\ h + k < Len(line)
                  /\ \A i \in (h + k + 1)..Len(line) : line[i] \notin LineTerminator }
    IN  IF h \in 1..3 /\ ks # {}
        THEN [ok |-> TRUE, hashes |-> h, title |-> SubSeq(line, h + Max(ks) + 1, Len(line))]
        ELSE [ok |-> FALSE, hashes |-> 0, title |-> <<>>]

\* Lines 108-115: the id of a heading with slug rawId under the Map counts.
UniqueId(counts, rawId) ==
    IF rawId \in DOMAIN counts
    THEN rawId \o <<"-">> \o NumToStr(counts[rawId] + 1)
    ELSE rawId

\* Mutant: the count of a repeated slug is not stored back.
CountSlugOnce(counts, rawId) ==
    IF rawId \in DOMAIN counts THEN counts ELSE counts @@ (rawId :> 0)

\* Lines 109-115: the Map after the heading.
CountSlug(counts, rawId) ==
    IF rawId \in DOMAIN counts
    THEN [counts EXCEPT ![rawId] = @ + 1]
    ELSE counts @@ (rawId :> 0)

\* One iteration of lines.forEach (lines 98-123) on the line at tocPos.
TocLine ==
    /\ ~tocDone
    /\ tocPos <= Len(tocLines)
    /\ LET match      == headerRegex(tocLines[tocPos])
           level      == match.hashes
           rawTitle   == Trim(match.title)
           cleanTitle == cleanMarkdown(rawTitle)
           rawId      == slugify(cleanTitle)
       IN  IF match.ok
           THEN /\ toc' = Append(toc, [id |-> UniqueId(slugCounts, rawId),
                                       title |-> rawTitle,
                                       level |-> level])
                /\ slugCounts' = CountSlug(slugCounts, rawId)
           ELSE UNCHANGED <<toc, slugCounts>>
    /\ tocPos' = tocPos + 1
    /\ UNCHANGED <<tocLines, tocDone>>

\* return toc (line 125)
TocReturn ==
    /\ ~tocDone
    /\ tocPos > Len(tocLines)
    /\ tocDone' = TRUE
    /\ UNCHANGED <<tocLines, tocPos, toc, slugCounts>>

\* The whole function, for the callers that use its result.
RECURSIVE ParseTocFrom(_, _, _, _)
ParseTocFrom(lines, i, items, counts) ==
    IF i > Len(lines) THEN items
    ELSE LET match    == headerRegex(lines[i])
             rawTitle == Trim(match.title)
             rawId    == slugify(cleanMarkdown(rawTitle))
         IN  IF match.ok
             THEN ParseTocFrom(lines, i + 1,
                      Append(items, [id |-> UniqueId(counts, rawId),
                                     title |-> rawTitle,
                                     level |-> match.hashes]),
                      CountSlug(counts, rawId))
             ELSE ParseTocFrom(lines, i + 1, items, counts)

parseTOC(text) == ParseTocFrom(Split(text), 1, <<>>, <<>>)

----------------------------------------------------------------------------
(* parseMarkdownByH1, src/utils/markdownUtils.ts:38-83.                    *)

Introduction == <<"I", "n", "t", "r", "o", "d", "u", "c", "t", "i", "o", "n">>

SectionPrefix == <<"s", "e", "c", "t", "i", "o", "n", "-">>

\* Mutant: the white space after '#' is optional.
IsH1LineNoSpace(line) ==
    /\ At(line, 1) = "#"
    /\ \E k \in 0..RunIn(line, 2, WhiteSpace) :
           /\ k + 2 <= Len(line)
           /\ line[k + 2] \notin LineTerminator

\* /^#\s+(.+)/.test(line), line 65: '#', white space, then one character
\* that '.' matches; \s+ gives back characters when it has to.
IsH1Line(line) ==
    /\ At(line, 1) = "#"
    /\ \E k \in 1..RunIn(line, 2, WhiteSpace) :
           /\ k + 2 <= Len(line)
           /\ line[k + 2] \notin LineTerminator

\* line.replace(/^#\s+/, ''), line 69
StripH1Marker(line) ==
    IF At(line, 1) = "#" /\ RunIn(line, 2, WhiteSpace) >= 1
    THEN SubSeq(line, 2 + RunIn(line, 2, WhiteSpace), Len(line))
    ELSE line

\* currentTitle.replace(/^#\s*/, ''), line 54
StripLeadingHash(title) ==
    IF At(title, 1) = "#"
    THEN SubSeq(title, 2 + RunIn(title, 2, WhiteSpace), Len(title))
    ELSE title

\* Mutant: the ordinal of a section id starts at 1.
SectionIdFromOne(n) == SectionPrefix \o NumToStr(n + 1)

\* `section-${sectionIndex++}`, line 53
SectionId(n) == SectionPrefix \o NumToStr(n)

\* Mutant: a section without content is not pushed.
pushSectionWithContent(secs, title, contentLines, index) ==
    LET content == Trim(Join(contentLines))
        raw     == <<"#", " ">> \o title \o <<LF, LF>> \o content
    IN  IF content # <<>>
        THEN [sections |-> Append(secs, [id |-> SectionId(index),
                                         title |-> Trim(StripLeadingHash(title)),
                                         content |-> content,
                                         raw |-> raw]),
              sectionIndex |-> index + 1]
        ELSE [sections |-> secs, sectionIndex |-> index]

\* pushSection, lines 47-59: the sections and the counter after the call.
pushSection(secs, title, contentLines, index) ==
    IF Len(contentLines) > 0 \/ title # Introduction
    THEN LET content == Trim(Join(contentLines))
             raw     == <<"#", " ">> \o title \o <<LF, LF>> \o content
         IN  [sections |-> Append(secs, [id |-> SectionId(index),
                                         title |-> Trim(StripLeadingHash(title)),
                                         content |-> content,
                                         raw |-> raw]),
              sectionIndex |-> index + 1]
    ELSE [sections |-> secs, sectionIndex |-> index]

\* One iteration of the loop of lines 61-74 on the line at h1Pos.
H1Line ==
    /\ ~h1Done
    /\ h1Pos <= Len(h1Lines)
    /\ LET line   == h1Lines[h1Pos]
           pushed == IF Len(sections) > 0 \/ Len(currentContentLines) > 0
                     THEN pushSection(sections, currentTitle, currentContentLines, sectionIndex)
                     ELSE [sections |-> sections, sectionIndex |-> sectionIndex]
       IN  IF IsH1Line(line)
           THEN /\ sections' = pushed.sections
                /\ sectionIndex' = pushed.sectionIndex
                /\ currentTitle' = Trim(StripH1Marker(line))
                /\ currentContentLines' = <<>>
           ELSE /\ currentContentLines' = Append(currentContentLines, line)
                /\ UNCHANGED <<sections, sectionIndex, currentTitle>>
    /\ h1Pos' = h1Pos + 1
    /\ UNCHANGED <<h1Lines, h1Done, h1Dropped>>

\* Lines 78-80: the empty leading Introduction section is shifted out.
DropsIntroduction(secs) ==
    /\ Len(secs) > 1
    /\ secs[1].title = Introduction
    /\ secs[1].content = <<>>

\* Lines 76-82: the last pushSection, the drop of the empty Introduction,
\* the return.
H1Finish ==
    /\ ~h1Done
    /\ h1Pos > Len(h1Lines)
    /\ LET pushed == pushSection(sections, currentTitle, currentContentLines, sectionIndex)
       IN  /\ sections' = IF DropsIntroduction(pushed.sections)
                          THEN Tail(pushed.sections)
                          ELSE pushed.sections
           /\ h1Dropped' = DropsIntroduction(pushed.sections)
           /\ sectionIndex' = pushed.sectionIndex
    /\ h1Done' = TRUE
    /\ UNCHANGED <<h1Lines, h1Pos, currentTitle, currentContentLines>>

\* The whole function, for the callers that use its result.
RECURSIVE ParseH1From(_, _, _, _, _, _)
ParseH1From(lines, i, secs, title, contentLines, index) ==
    IF i > Len(lines)
    THEN LET pushed == pushSection(secs, title, contentLines, index)
         IN  IF DropsIntroduction(pushed.sections)
             THEN Tail(pushed.sections)
             ELSE pushed.sections
    ELSE IF IsH1Line(lines[i])
         THEN LET pushed == IF Len(secs) > 0 \/ Len(contentLines) > 0
                            THEN pushSection(secs, title, contentLines, index)
                            ELSE [sections |-> secs, sectionIndex |-> index]
              IN  ParseH1From(lines, i + 1, pushed.sections,
                              Trim(StripH1Marker(lines[i])), <<>>, pushed.sectionIndex)
         ELSE ParseH1From(lines, i + 1, secs, title, Append(contentLines, lines[i]), index)

parseMarkdownByH1(text) == ParseH1From(Split(text), 1, <<>>, Introduction, <<>>, 0)

----------------------------------------------------------------------------
(* Heading ids of the interactive renderer,                                *)
(* src/components/MarkdownRenderer.tsx:46-78 and 118-134.                  *)

\* getUniqueId, lines 51-62, on the Map slugCounts of the render pass: the
\* id returned and the Map afterwards.
getUniqueId(counts, text) ==
    [id |-> UniqueId(counts, slugify(text)), counts |-> CountSlug(counts, slugify(text))]

\* One render pass of MarkdownRenderer over the h1, h2 and h3 of its
\* content, in document order: slugCounts starts empty (line 49).
RECURSIVE RenderIdsFrom(_, _, _)
RenderIdsFrom(texts, i, counts) ==
    IF i > Len(texts) THEN <<>>
    ELSE LET r == getUniqueId(counts, texts[i])
         IN  <<r.id>> \o RenderIdsFrom(texts, i + 1, r.counts)

RenderIds(texts) == RenderIdsFrom(texts, 1, <<>>)

\* A React child is a string or an element with children of its own.
TextNode(t) == [type |-> "text", value |-> t, children |-> <<>>]

ElementNode(cs) == [type |-> "element", value |-> <<>>, children |-> cs]

\* getNodeText, lines 65-78
RECURSIVE getNodeText(_)
getNodeText(children) ==
    IF children = <<>> THEN <<>>
    ELSE LET child == Head(children)
             text  == IF child.type = "text" THEN child.value
                      ELSE getNodeText(child.children)
         IN  text \o getNodeText(Tail(children))

----------------------------------------------------------------------------
(* Heading ids of the exported artifact, the DOMContentLoaded script of    *)
(* src/utils/exportUtils.ts:233-267.  The counters live in a plain object  *)
(* (line 250): reading a key the object does not own falls through to      *)
(* Object.prototype.                                                       *)

Num(n) == [kind |-> "number", n |-> n]

NaN == [kind |-> "NaN", n |-> 0]

Inherited == [kind |-> "inherited", n |-> 0]

Undefined == [kind |-> "undefined", n |-> 0]

\* The names Object.prototype defines that slugify can return.
ObjectPrototypeKeys == { <<"c", "o", "n", "s", "t", "r", "u", "c", "t", "o", "r">> }

\* slugCounts[rawId], line 259
ObjectGet(obj, key) ==
    IF key \in DOMAIN obj THEN obj[key]
    ELSE IF key \in ObjectPrototypeKeys THEN Inherited
    ELSE Undefined

\* v + 1 as ++ computes it: a value that is no number gives NaN.
Increment(v) == IF v.kind = "number" THEN Num(v.n + 1) ELSE NaN

ValueToStr(v) == IF v.kind = "number" THEN NumToStr(v.n) ELSE <<"N", "a", "N">>

\* The slugify of the script, lines 233-239: the same chain as slugify.
exportSlugify(text) == StripNonSlug(HyphenateWhiteSpace(Trim(ToLowerCase(text))))

\* Lines 257-264: the id of a header and the object afterwards.
ExportHeaderId(obj, textContent) ==
    LET rawId == exportSlugify(textContent)
        old   == ObjectGet(obj, rawId)
    IN  IF old # Undefined
        THEN [id |-> rawId \o <<"-">> \o ValueToStr(Increment(old)),
              counts |-> IF rawId \in DOMAIN obj
                         THEN [obj EXCEPT ![rawId] = Increment(old)]
                         ELSE obj @@ (rawId :> Increment(old))]
        ELSE [id |-> rawId, counts |-> obj @@ (rawId :> Num(0))]

\* The position after (b, i) in the document order of the headers of all
\* .markdown-rendered blocks (querySelectorAll, line 252).
RECURSIVE NextHeaderPos(_, _, _)
NextHeaderPos(bs, b, i) ==
    IF b > Len(bs) THEN <<b, 1>>
    ELSE IF i + 1 <= Len(bs[b]) THEN <<b, i + 1>>
    ELSE NextHeaderPos(bs, b + 1, 0)

----------------------------------------------------------------------------
(* Specification SpecSlugify: slugify applied to a bounded input, then     *)
(* applied again to its own output.                                        *)

MaxSlugLen == 4

SlugAlphabet == {"A", "1", " ", "-", "_", "!", CJK1, CJK2, NBSP}

SlugInputs == SeqsUpTo(SlugAlphabet, MaxSlugLen)

InitSlugify ==
    /\ LiveIdle
    /\ EscapeIdle
    /\ ResizeIdle
    /\ AlertIdle
    /\ CleanIdle
    /\ PassIdle
    /\ ExportIdle
    /\ TocIdle
    /\ H1Idle
    /\ IdsIdle
    /\ EmIdle
    /\ slugIn \in SlugInputs
    /\ slugVal = slugIn
    /\ slugStage = "start"
    /\ slugPass = 1
    /\ slugFirst = <<>>

SlugLowerCase ==
    /\ slugStage = "start"
    /\ slugVal' = ToLowerCase(slugVal)
    /\ slugStage' = "lowered"
    /\ UNCHANGED <<slugIn, slugPass, slugFirst>>

SlugTrim ==
    /\ slugStage = "lowered"
    /\ slugVal' = Trim(slugVal)
    /\ slugStage' = "trimmed"
    /\ UNCHANGED <<slugIn, slugPass, slugFirst>>

SlugHyphenate ==
    /\ slugStage = "trimmed"
    /\ slugVal' = HyphenateWhiteSpace(slugVal)
    /\ slugStage' = "hyphenated"
    /\ UNCHANGED <<slugIn, slugPass, slugFirst>>

SlugStrip ==
    /\ slugStage = "hyphenated"
    /\ slugVal' = StripNonSlug(slugVal)
    /\ slugStage' = "done"
    /\ UNCHANGED <<slugIn, slugPass, slugFirst>>

\* slugify(slugify(t)): the result of the first call is the argument of the second.
SlugReapply ==
    /\ slugStage = "done"
    /\ slugPass = 1
    /\ slugFirst' = slugVal
    /\ slugPass' = 2
    /\ slugStage' = "start"
    /\ UNCHANGED <<slugIn, slugVal>>

NextSlugify ==
    \/ SlugLowerCase /\ UNCHANGED notSlug
    \/ SlugTrim /\ UNCHANGED notSlug
    \/ SlugHyphenate /\ UNCHANGED notSlug
    \/ SlugStrip /\ UNCHANGED notSlug
    \/ SlugReapply /\ UNCHANGED notSlug

SpecSlugify == InitSlugify /\ [][NextSlugify]_vars

----------------------------------------------------------------------------
(* Specification SpecParseTOC: parseTOC on a bounded document.             *)

MaxTocLines == 3

\* The lines the documents are made of.
TocLineSet ==
    { <<"#", " ", "a">>,
      <<"#", " ", "A">>,
      <<"#", "#", " ", "a">>,
      <<"#", "#", "#", " ", "a">>,
      <<"#", "#", " ", "a", "-", "1">>,
      <<"#", "#", "#", "#", " ", "a">>,
      <<"#", "a">>,
      <<"a">>,
      <<>>,
      <<"#", " ", "a", CR>>,
      <<"#", " ", " ", "a", " ">>,
      <<"#", TAB, "*", "a", "*">>,
      <<"#", " ", "!">>,
      <<"#", " ">>,
      <<"#", " ", " ">>,
      <<"#", "#", " ", "[", "a", "]", "(", "b", ")">>,
      <<"#", " ", "b", " ", "1">> }

TocDocs == SeqsUpTo(TocLineSet, MaxTocLines)

InitParseTOC ==
    /\ LiveIdle
    /\ EscapeIdle
    /\ ResizeIdle
    /\ AlertIdle
    /\ CleanIdle
    /\ PassIdle
    /\ ExportIdle
    /\ SlugIdle
    /\ H1Idle
    /\ IdsIdle
    /\ EmIdle
    /\ \E ls \in TocDocs : tocLines = Split(Join(ls))
    /\ tocPos = 1
    /\ toc = <<>>
    /\ slugCounts = <<>>
    /\ tocDone = FALSE

NextParseTOC ==
    \/ TocLine /\ UNCHANGED notToc
    \/ TocReturn /\ UNCHANGED notToc

SpecParseTOC == InitParseTOC /\ [][NextParseTOC]_vars

----------------------------------------------------------------------------
(* Specification SpecParseH1: parseMarkdownByH1 on a bounded document.     *)

MaxH1Lines == 3

\* The lines the documents are made of.
H1LineSet ==
    { <<"#", " ", "A">>,
      <<"#", " ", "B">>,
      <<"#", " ", " ", "A", " ">>,
      <<"#", " ", "A", CR>>,
      <<"#", " ", "#", " ", "A">>,
      <<"#", " ">> \o Introduction,
      <<"#", "#", " ", "s">>,
      <<"#", "A">>,
      <<"#", " ">>,
      <<"#", " ", " ">>,
      <<" ", "#", " ", "B">>,
      <<"f", "o", "o">>,
      <<" ">>,
      <<>> }

H1Docs == SeqsUpTo(H1LineSet, MaxH1Lines)

InitParseH1 ==
    /\ LiveIdle
    /\ EscapeIdle
    /\ ResizeIdle
    /\ AlertIdle
    /\ CleanIdle
    /\ PassIdle
    /\ ExportIdle
    /\ SlugIdle
    /\ TocIdle
    /\ IdsIdle
    /\ EmIdle
    /\ \E ls \in H1Docs : h1Lines = Split(Join(ls))
    /\ h1Pos = 1
    /\ sections = <<>>
    /\ currentTitle = Introduction
    /\ currentContentLines = <<>>
    /\ sectionIndex = 0
    /\ h1Done = FALSE
    /\ h1Dropped = FALSE

NextParseH1 ==
    \/ H1Line /\ UNCHANGED notH1
    \/ H1Finish /\ UNCHANGED notH1

SpecParseH1 == InitParseH1 /\ [][NextParseH1]_vars

----------------------------------------------------------------------------
(* Specification SpecHeadingIds: the same rendered document given to the   *)
(* interactive renderer and to the script of the exported artifact.  A     *)
(* block is the sequence of the plain texts of the h1, h2 and h3 headings  *)
(* of one rendered Markdown text: one block per section in sectioned mode  *)
(* (App renders activeSection.content, the export one .markdown-rendered   *)
(* per section), one block in all in continuous mode.                      *)

MaxBlocks == 2

MaxHeads == 2

HeadTexts ==
    { <<"S">>,
      <<"s">>,
      <<"s", " ", "1">>,
      <<"!">> }

BlockSet == SeqsUpTo(HeadTexts, MaxHeads)

InitHeadingIds ==
    /\ LiveIdle
    /\ EscapeIdle
    /\ ResizeIdle
    /\ AlertIdle
    /\ CleanIdle
    /\ PassIdle
    /\ ExportIdle
    /\ SlugIdle
    /\ TocIdle
    /\ H1Idle
    /\ EmIdle
    /\ viewMode \in {"sectioned", "continuous"}
    /\ blocks \in IF viewMode = "sectioned"
                  THEN SeqsUpTo(BlockSet, MaxBlocks) \ {<<>>}
                  ELSE [1..1 -> BlockSet]
    /\ liveIds = [b \in 1..Len(blocks) |-> Unset]
    /\ exportIds = [b \in 1..Len(blocks) |-> <<>>]
    /\ exportCounts = <<>>
    /\ exportPos = NextHeaderPos(blocks, 1, 0)

\* A render pass of MarkdownRenderer: on the content of section b when b is
\* the active section (part_000:272-287), on the full content in continuous
\* mode (part_000:331-337).
RenderBlock(b) ==
    /\ liveIds' = [liveIds EXCEPT ![b] = RenderIds(blocks[b])]
    /\ UNCHANGED <<viewMode, blocks, exportIds, exportCounts, exportPos>>

\* One iteration of headers.forEach (exportUtils.ts:253-267); marked leaves
\* the headers without id, so the test of line 254 passes.
ExportHeader ==
    /\ exportPos[1] <= Len(blocks)
    /\ LET b == exportPos[1]
           i == exportPos[2]
           r == ExportHeaderId(exportCounts, blocks[b][i])
       IN  /\ exportIds' = [exportIds EXCEPT ![b] = Append(@, r.id)]
           /\ exportCounts' = r.counts
           /\ exportPos' = NextHeaderPos(blocks, b, i)
    /\ UNCHANGED <<viewMode, blocks, liveIds>>

ExportDone == exportPos[1] > Len(blocks)

NextHeadingIds ==
    \/ \E b \in 1..Len(blocks) : RenderBlock(b) /\ UNCHANGED notIds
    \/ ExportHeader /\ UNCHANGED notIds

SpecHeadingIds == InitHeadingIds /\ [][NextHeadingIds]_vars

----------------------------------------------------------------------------
(* Specification SpecIdPipelines: one sequence of heading plain texts      *)
(* given to both id pipelines (one block, continuous mode), the texts      *)
(* including one whose slug names a property of Object.prototype.          *)

MaxPipelineHeads == 3

PipelineTexts ==
    HeadTexts \cup { <<"C", "o", "n", "s", "t", "r", "u", "c", "t", "o", "r">> }

InitIdPipelines ==
    /\ LiveIdle
    /\ EscapeIdle
    /\ ResizeIdle
    /\ AlertIdle
    /\ CleanIdle
    /\ PassIdle
    /\ ExportIdle
    /\ SlugIdle
    /\ TocIdle
    /\ H1Idle
    /\ EmIdle
    /\ viewMode = "continuous"
    /\ blocks \in [1..1 -> SeqsUpTo(PipelineTexts, MaxPipelineHeads)]
    /\ liveIds = <<Unset>>
    /\ exportIds = << <<>> >>
    /\ exportCounts = <<>>
    /\ exportPos = NextHeaderPos(blocks, 1, 0)

SpecIdPipelines == InitIdPipelines /\ [][NextHeadingIds]_vars

----------------------------------------------------------------------------
(* Specification SpecEmphasis: one heading with inline emphasis, its id    *)
(* from parseTOC (from the raw line) and from the interactive renderer     *)
(* (from the rendered children).  The heading is given as the Markdown     *)
(* formatter parses it: text runs and emphasised runs.                     *)

Plain(t) == [em |-> 0, marker |-> "*", text |-> t]

Emph(n, c, t) == [em |-> n, marker |-> c, text |-> t]

EmphasisedTexts(c) ==
    { <<"S">>, <<"a", " ", "b">> } \cup (IF c = "*" THEN { <<"a", "_", "b">> } ELSE {})

HeadingSet ==
    UNION { { pre \o <<Emph(n, c, t)>> \o post :
                pre \in { <<>>, <<Plain(<<"G", " ">>)>>, <<Plain(<<"x", "_", "y", " ">>)>> },
                post \in { <<>>, <<Plain(<<" ", "b">>)>> },
                n \in 1..3,
                t \in EmphasisedTexts(c) } : c \in EmphasisMarkers }

\* The Markdown source of a heading.
RECURSIVE RawHeading(_)
RawHeading(h) ==
    IF h = <<>> THEN <<>>
    ELSE LET node == Head(h)
             mark == [i \in 1..node.em |-> node.marker]
         IN  mark \o node.text \o mark \o RawHeading(Tail(h))

\* The children react-markdown hands to the heading component: a string
\* for a text run, <em>, <strong> or <em><strong> around the string for an
\* emphasised run.
ReactChildren(h) ==
    [i \in 1..Len(h) |->
        IF h[i].em = 0 THEN TextNode(h[i].text)
        ELSE IF h[i].em = 3 THEN ElementNode(<<ElementNode(<<TextNode(h[i].text)>>)>>)
        ELSE ElementNode(<<TextNode(h[i].text)>>)]

InitEmphasis ==
    /\ LiveIdle
    /\ EscapeIdle
    /\ ResizeIdle
    /\ AlertIdle
    /\ CleanIdle
    /\ PassIdle
    /\ ExportIdle
    /\ SlugIdle
    /\ TocIdle
    /\ H1Idle
    /\ IdsIdle
    /\ heading \in HeadingSet
    /\ tocId = Unset
    /\ liveId = Unset

\* parseTOC on the document made of the heading line alone.
EmParseTOC ==
    /\ tocId = Unset
    /\ LET items == parseTOC(<<"#", " ">> \o RawHeading(heading))
       IN  tocId' = IF items = <<>> THEN <<"none">> ELSE items[1].id
    /\ UNCHANGED <<heading, liveId>>

\* The h1 component of MarkdownRenderer (lines 118-126) on the rendered
\* heading, first heading of the render pass.
EmRender ==
    /\ liveId = Unset
    /\ liveId' = getUniqueId(<<>>, getNodeText(ReactChildren(heading))).id
    /\ UNCHANGED <<heading, tocId>>

NextEmphasis ==
    \/ EmParseTOC /\ UNCHANGED notEm
    \/ EmRender /\ UNCHANGED notEm

SpecEmphasis == InitEmphasis /\ [][NextEmphasis]_vars

----------------------------------------------------------------------------
(* The export, src/utils/exportUtils.ts.  The document string is modelled  *)
(* by its parts: the sidebar items and the blocks of the main pane.        *)

\* s.replace(/c/g, rep) for a pattern of one character
RECURSIVE ReplaceChar(_, _, _)
ReplaceChar(s, c, rep) ==
    IF s = <<>> THEN <<>>
    ELSE (IF Head(s) = c THEN rep ELSE <<Head(s)>>) \o ReplaceChar(Tail(s), c, rep)

DQ == "DQ"

\* escapeHtml, lines 5-12 (DQ is the double quote)
escapeHtml(unsafe) ==
    ReplaceChar(
        ReplaceChar(
            ReplaceChar(
                ReplaceChar(
                    ReplaceChar(unsafe, "&", <<"&", "a", "m", "p", ";">>),
                    "<", <<"&", "l", "t", ";">>),
                ">", <<"&", "g", "t", ";">>),
            DQ, <<"&", "q", "u", "o", "t", ";">>),
        "'", <<"&", "#", "0", "3", "9", ";">>)

\* The character references escapeHtml writes, as the HTML parser of the
\* browser reads them back (div.textContent, line 244).
CharRefs ==
    << [ref |-> <<"&", "a", "m", "p", ";">>, char |-> "&"],
       [ref |-> <<"&", "l", "t", ";">>, char |-> "<"],
       [ref |-> <<"&", "g", "t", ";">>, char |-> ">"],
       [ref |-> <<"&", "q", "u", "o", "t", ";">>, char |-> DQ],
       [ref |-> <<"&", "#", "0", "3", "9", ";">>, char |-> "'"] >>

StartsWithAt(s, p, pre) ==
    /\ p + Len(pre) - 1 <= Len(s)
    /\ SubSeq(s, p, p + Len(pre) - 1) = pre

RECURSIVE DecodeFrom(_, _)
DecodeFrom(s, p) ==
    IF p > Len(s) THEN <<>>
    ELSE LET hits == { k \in 1..Len(CharRefs) : StartsWithAt(s, p, CharRefs[k].ref) }
         IN  IF hits = {} THEN <<s[p]>> \o DecodeFrom(s, p + 1)
             ELSE LET k == CHOOSE x \in hits : TRUE
                  IN  <<CharRefs[k].char>> \o DecodeFrom(s, p + Len(CharRefs[k].ref))

\* The newlines of the input stream as the HTML parser normalises them
\* before it tokenises: CR LF and a single CR become LF.
RECURSIVE NormalizeNewlines(_)
NormalizeNewlines(s) ==
    IF s = <<>> THEN <<>>
    ELSE IF Head(s) = CR
         THEN <<LF>> \o NormalizeNewlines(IF At(s, 2) = LF THEN Tail(Tail(s)) ELSE Tail(s))
         ELSE <<Head(s)>> \o NormalizeNewlines(Tail(s))

textContent(markup) == DecodeFrom(NormalizeNewlines(markup), 1)

NoId == <<>>

\* One section of generateSectionedHtml, lines 411-456: the div of the
\* section, its class hidden, the escaped title and content, and the ids
\* its Previous and Next buttons give to switchSection (NoId: no button).
SectionBlock(secs, index) ==
    LET section     == secs[index]
        hasPrev     == index > 1
        hasNext     == index < Len(secs)
    IN  [divId |-> SectionPrefix \o section.id,
         hidden |-> index # 1,
         title |-> escapeHtml(section.title),
         markdownRaw |-> escapeHtml(section.content),
         prev |-> IF hasPrev THEN secs[index - 1].id ELSE NoId,
         next |-> IF hasNext THEN secs[index + 1].id ELSE NoId]

BtnPrefix == <<"b", "t", "n", "-">>

\* One sidebar button of generateSectionedHtml, lines 459-465
SidebarButton(secs, index) ==
    [switchTo |-> secs[index].id,
     id |-> BtnPrefix \o secs[index].id,
     active |-> index = 1,
     title |-> escapeHtml(secs[index].title)]

\* generateSectionedHtml, lines 410-486
generateSectionedHtml(d) ==
    [sidebar |-> [i \in 1..Len(d.sections) |-> SidebarButton(d.sections, i)],
     main |-> [i \in 1..Len(d.sections) |-> SectionBlock(d.sections, i)],
     extraScript |-> "switchSection"]

\* One sidebar link of generateContinuousHtml, lines 501-512
NavItem(item) ==
    [href |-> <<"#">> \o item.id,
     paddingLeft |-> IF item.level = 1 THEN "0.5rem"
                     ELSE IF item.level = 2 THEN "2rem" ELSE "3.5rem",
     title |-> escapeHtml(item.title)]

\* generateContinuousHtml, lines 491-515
generateContinuousHtml(d) ==
    [sidebar |-> [i \in 1..Len(d.toc) |-> NavItem(d.toc[i])],
     main |-> << [divId |-> NoId,
                  hidden |-> FALSE,
                  title |-> NoId,
                  markdownRaw |-> escapeHtml(d.fullContent),
                  prev |-> NoId,
                  next |-> NoId] >>,
     extraScript |-> "none"]

\* generateStandaloneHtml, lines 555-561
generateStandaloneHtml(d, mode) ==
    IF mode = "sectioned" THEN generateSectionedHtml(d) ELSE generateContinuousHtml(d)

\* The text contents of the h1, h2 and h3 elements the Markdown formatter
\* of the artifact (marked.parse, line 245) makes of a raw text whose
\* headings are lines of '#' marks, white space and plain text.
RECURSIVE MarkedHeadersFrom(_, _)
MarkedHeadersFrom(lines, i) ==
    IF i > Len(lines) THEN <<>>
    ELSE (IF headerRegex(lines[i]).ok
          THEN <<Trim(headerRegex(lines[i]).title)>>
          ELSE <<>>) \o MarkedHeadersFrom(lines, i + 1)

MarkedHeaders(raw) == MarkedHeadersFrom(Split(raw), 1)

\* headers.forEach of lines 253-267 over the headers of one block: the ids
\* given and the slugCounts object afterwards.
RECURSIVE HeaderIdsFrom(_, _, _)
HeaderIdsFrom(texts, i, counts) ==
    IF i > Len(texts) THEN [ids |-> <<>>, counts |-> counts]
    ELSE LET r    == ExportHeaderId(counts, texts[i])
             rest == HeaderIdsFrom(texts, i + 1, r.counts)
         IN  [ids |-> <<r.id>> \o rest.ids, counts |-> rest.counts]

\* An element of the opened artifact: its tag, its id, whether it has the
\* classes section-content and hidden, whether it has the highlighted
\* className of lines 461 and 480, and the ids its onclick handlers (its
\* own, or those of its Previous and Next buttons) give to switchSection.
Element(tag, id) ==
    [tag |-> tag, id |-> id, sectionContent |-> FALSE, hidden |-> FALSE,
     active |-> FALSE, switchTo |-> NoId, prev |-> NoId, next |-> NoId]

ButtonElement(item) ==
    [Element("button", item.id) EXCEPT !.active = item.active, !.switchTo = item.switchTo]

DivElement(block) ==
    [Element("div", block.divId) EXCEPT
        !.sectionContent = block.divId # NoId,
        !.hidden = block.hidden,
        !.prev = block.prev,
        !.next = block.next]

\* The blocks of the main pane from block b on, in document order: the div
\* of the block, then the headers of its .markdown-rendered with the ids of
\* lines 249-267 (one slugCounts object for all blocks).
RECURSIVE MainElements(_, _, _)
MainElements(main, b, counts) ==
    IF b > Len(main) THEN <<>>
    ELSE LET texts == MarkedHeaders(textContent(main[b].markdownRaw))
             hs    == HeaderIdsFrom(texts, 1, counts)
         IN  <<DivElement(main[b])>>
             \o [i \in 1..Len(hs.ids) |-> Element("h", hs.ids[i])]
             \o MainElements(main, b + 1, hs.counts)

\* The document after DOMContentLoaded (lines 228-267): the sidebar (buttons
\* in sectioned mode, links without id in continuous mode), then the main
\* pane.
LoadedDocument(html) ==
    [i \in 1..Len(html.sidebar) |->
        IF html.extraScript = "switchSection"
        THEN ButtonElement(html.sidebar[i])
        ELSE Element("a", NoId)]
    \o MainElements(html.main, 1, <<>>)

\* document.getElementById: the first element with the id in document
\* order, 0 for null.
getElementById(els, id) ==
    LET hits == { i \in 1..Len(els) : els[i].id = id }
    IN  IF hits = {} THEN 0 ELSE Min(hits)

\* switchSection, lines 469-481: the elements and the scrollTop of the main
\* pane afterwards.  When getElementById returns null line 471 throws and
\* the rest of the function does not run.
switchSection(els, top, id) ==
    LET hiddenAll == [i \in 1..Len(els) |->
                         IF els[i].sectionContent
                         THEN [els[i] EXCEPT !.hidden = TRUE]
                         ELSE els[i]]
        target    == getElementById(els, SectionPrefix \o id)
        shown     == [hiddenAll EXCEPT ![target].hidden = FALSE]
        reset     == [i \in 1..Len(shown) |->
                         IF shown[i].tag = "button" /\ StartsWithAt(shown[i].id, 1, BtnPrefix)
                         THEN [shown[i] EXCEPT !.active = FALSE]
                         ELSE shown[i]]
        activeBtn == getElementById(els, BtnPrefix \o id)
    IN  IF target = 0
        THEN [els |-> hiddenAll, scrollTop |-> top]
        ELSE [els |-> IF activeBtn = 0 THEN reset ELSE [reset EXCEPT ![activeBtn].active = TRUE],
              scrollTop |-> 0]

----------------------------------------------------------------------------
(* Specification SpecExport: App loads a bounded document, the artifact is *)
(* downloaded in the chosen layout mode, opened, and its sections are      *)
(* switched.                                                               *)

MaxExportLines == 3

\* The lines the documents are made of.
ExportLineSet ==
    { <<"#", " ", "A">>,
      <<"#", " ", "B">>,
      <<"#", "#", " ", "s">>,
      <<"#", "#", " ", "S", "e", "c", "t", "i", "o", "n", " ",
        "s", "e", "c", "t", "i", "o", "n", "-", "1">>,
      <<"#", "#", "#", "#", " ", "a">>,
      <<"a", "<", "b", "&">>,
      <<"f", "o", "o">>,
      <<>> }

ExportTexts == { Join(ls) : ls \in SeqsUpTo(ExportLineSet, MaxExportLines) }

ScrollOffsets == {0, 40}

InitExport ==
    /\ LiveIdle
    /\ EscapeIdle
    /\ ResizeIdle
    /\ AlertIdle
    /\ CleanIdle
    /\ PassIdle
    /\ SlugIdle
    /\ TocIdle
    /\ H1Idle
    /\ IdsIdle
    /\ EmIdle
    /\ appViewMode = "sectioned"
    /\ doc = Null
    /\ download = Null
    /\ dom = <<>>
    /\ scrollTop = 0
    /\ lastClicked = Unset
    /\ lastEvent = "none"

\* The mode buttons of the upload screen, part_000:208 and 229.
SelectViewMode(mode) ==
    /\ doc = Null
    /\ appViewMode' = mode
    /\ UNCHANGED <<doc, download, dom, scrollTop, lastClicked, lastEvent>>

\* reader.onload of handleFileUpload, part_000:130-147
handleFileUpload(text) ==
    /\ doc = Null
    /\ doc' = <<[fileName |-> <<"f">>,
                sections |-> parseMarkdownByH1(text),
                fullContent |-> text,
                toc |-> parseTOC(text)]>>
    /\ UNCHANGED <<appViewMode, download, dom, scrollTop, lastClicked, lastEvent>>

\* handleReset, part_000:152-156; the artifact of the document is followed
\* no further.
handleReset ==
    /\ doc # Null
    /\ doc' = Null
    /\ download' = Null
    /\ dom' = <<>>
    /\ scrollTop' = 0
    /\ lastClicked' = Unset
    /\ lastEvent' = "none"
    /\ UNCHANGED appViewMode

\* handleDownload, part_000:158-183
handleDownload ==
    /\ doc # Null
    /\ download' = <<[mode |-> appViewMode,
                     html |-> generateStandaloneHtml(doc[1], appViewMode)]>>
    /\ UNCHANGED <<appViewMode, doc, dom, scrollTop, lastClicked, lastEvent>>

\* The downloaded artifact is opened: DOMContentLoaded, exportUtils.ts:228.
OpenArtifact ==
    /\ download # Null
    /\ dom' = LoadedDocument(download[1].html)
    /\ scrollTop' = 0
    /\ lastClicked' = Unset
    /\ lastEvent' = "open"
    /\ UNCHANGED <<appViewMode, doc, download>>

\* The reader scrolls the main pane.
ScrollMain(y) ==
    /\ lastEvent # "none"
    /\ scrollTop' = y
    /\ lastEvent' = "scroll"
    /\ UNCHANGED <<appViewMode, doc, download, dom, lastClicked>>

\* The ids the buttons that can be clicked give to switchSection: the
\* sidebar buttons, and Previous and Next of a section that is shown.
ClickableIds ==
    { dom[i].switchTo : i \in { j \in 1..Len(dom) : dom[j].tag = "button" } }
    \cup UNION { {dom[i].prev, dom[i].next} :
                 i \in { j \in 1..Len(dom) : dom[j].sectionContent /\ ~dom[j].hidden } }

\* onclick="switchSection('...')", exportUtils.ts:421, 432 and 461
ClickSwitch(id) ==
    /\ lastEvent # "none"
    /\ id \in ClickableIds \ {NoId}
    /\ LET r == switchSection(dom, scrollTop, id)
       IN  /\ dom' = r.els
           /\ scrollTop' = r.scrollTop
    /\ lastClicked' = id
    /\ lastEvent' = "click"
    /\ UNCHANGED <<appViewMode, doc, download>>

SectionIds == { SectionId(n) : n \in 0..(MaxExportLines + 1) }

NextExport ==
    \/ \E mode \in {"sectioned", "continuous"} : SelectViewMode(mode) /\ UNCHANGED notExport
    \/ \E text \in ExportTexts : handleFileUpload(text) /\ UNCHANGED notExport
    \/ handleReset /\ UNCHANGED notExport
    \/ handleDownload /\ UNCHANGED notExport
    \/ OpenArtifact /\ UNCHANGED notExport
    \/ \E y \in ScrollOffsets : ScrollMain(y) /\ UNCHANGED notExport
    \/ \E id \in SectionIds : ClickSwitch(id) /\ UNCHANGED notExport

SpecExport == InitExport /\ [][NextExport]_vars

----------------------------------------------------------------------------
(* Specification SpecPasses: the headings of one document go through       *)
(* parseTOC, through MarkdownRenderer and through the header-id script of  *)
(* the artifact, each any number of times.  Every pass owns the counter    *)
(* map it creates: `new Map()` in the body of parseTOC                     *)
(* (markdownUtils.ts:96) and of MarkdownRenderer (MarkdownRenderer.tsx:49, *)
(* each heading component being called once per render), `{}` in the       *)
(* DOMContentLoaded handler (exportUtils.ts:250).                          *)

MaxPasses == 2

MaxPassHeads == 2

PassTexts == { <<"a">>, <<"A">>, <<"*", "a", "*">>, <<"b">> }

Pipelines == {"toc", "render", "export"}

\* Mutant: the counter map is created once per pipeline and kept.
CountersOfLastPass(ps, pipeline) ==
    LET same == { i \in 1..Len(ps) : ps[i].pipeline = pipeline }
    IN  IF same = {} THEN <<>> ELSE ps[Max(same)].slugCounts

\* The counter map a pass of the pipeline starts with, ps being the passes
\* started before.
NewCounters(ps, pipeline) == <<>>

InitPasses ==
    /\ LiveIdle
    /\ EscapeIdle
    /\ ResizeIdle
    /\ AlertIdle
    /\ CleanIdle
    /\ SlugIdle
    /\ TocIdle
    /\ H1Idle
    /\ IdsIdle
    /\ EmIdle
    /\ ExportIdle
    /\ passHeads \in SeqsUpTo(PassTexts, MaxPassHeads)
    /\ passes = <<>>

\* parseTOC is called, MarkdownRenderer renders, or the artifact is opened.
StartPass(pipeline) ==
    /\ Len(passes) < MaxPasses
    /\ passes' = Append(passes, [pipeline |-> pipeline,
                                 pos |-> 1,
                                 slugCounts |-> NewCounters(passes, pipeline),
                                 ids |-> <<>>])
    /\ UNCHANGED passHeads

\* The id of the heading text under the counters of a pass, and the
\* counters afterwards: lines 98-123 of parseTOC on the line '# text',
\* getUniqueId on the rendered text (emphasis markers are no part of it),
\* lines 257-265 of the script on header.textContent.
PassHeading(pipeline, counts, text) ==
    LET match    == headerRegex(<<"#", " ">> \o text)
        rawId    == slugify(cleanMarkdown(Trim(match.title)))
        rendered == SelectSeq(text, LAMBDA c : c \notin EmphasisMarkers)
    IN  CASE pipeline = "toc" ->
                 [id |-> UniqueId(counts, rawId), counts |-> CountSlug(counts, rawId)]
          [] pipeline = "render" -> getUniqueId(counts, rendered)
          [] pipeline = "export" -> ExportHeaderId(counts, rendered)

\* Pass p handles its next heading.
PassStep(p) ==
    /\ p \in 1..Len(passes)
    /\ passes[p].pos <= Len(passHeads)
    /\ LET r == PassHeading(passes[p].pipeline, passes[p].slugCounts, passHeads[passes[p].pos])
       IN  passes' = [passes EXCEPT ![p] = [pipeline |-> @.pipeline,
                                            pos |-> @.pos + 1,
                                            slugCounts |-> r.counts,
                                            ids |-> Append(@.ids, r.id)]]
    /\ UNCHANGED passHeads

NextPasses ==
    \/ \E pipeline \in Pipelines : StartPass(pipeline) /\ UNCHANGED notPass
    \/ \E p \in 1..MaxPasses : PassStep(p) /\ UNCHANGED notPass

SpecPasses == InitPasses /\ [][NextPasses]_vars

----------------------------------------------------------------------------
(* Specification SpecCleanMarkdown: cleanMarkdown on a heading text with   *)
(* one image or link construct between plain text.                         *)

\* The heading text of the parts: text before, `![alt](url)` or
\* `[text](url)`, text after.
ConstructText(parts) ==
    parts.pre
    \o (IF parts.kind = "image" THEN <<"!">> ELSE <<>>)
    \o <<"[">> \o parts.text \o <<"]", "(">> \o parts.url \o <<")">>
    \o parts.post

ConstructSet ==
    { [kind |-> k, pre |-> pre, text |-> t, url |-> u, post |-> post] :
        k \in {"image", "link"},
        pre \in { <<>>, <<"x", " ">>, <<"s", "e", "e", " ">> },
        t \in { <<"a">>, <<"a", " ", "b">>, <<>> },
        u \in { <<"u">>, <<"a", "/", "b", ".", "p", "n", "g">> },
        post \in { <<>>, <<" ", "y">> } }

InitCleanMarkdown ==
    /\ LiveIdle
    /\ EscapeIdle
    /\ ResizeIdle
    /\ AlertIdle
    /\ SlugIdle
    /\ TocIdle
    /\ H1Idle
    /\ IdsIdle
    /\ EmIdle
    /\ ExportIdle
    /\ PassIdle
    /\ \E parts \in { c \in ConstructSet : c.kind = "link" => c.text # <<>> } :
           cleanIn = <<parts>>
    /\ cleanVal = ConstructText(cleanIn[1])
    /\ cleanStage = "start"

\* line 26
CleanLinks ==
    /\ cleanStage = "start"
    /\ cleanVal' = ReplaceByGroup("link", cleanVal, 1)
    /\ cleanStage' = "links"
    /\ UNCHANGED cleanIn

\* line 28
CleanImages ==
    /\ cleanStage = "links"
    /\ cleanVal' = ReplaceByGroup("image", cleanVal, 1)
    /\ cleanStage' = "images"
    /\ UNCHANGED cleanIn

\* line 30
CleanCode ==
    /\ cleanStage = "images"
    /\ cleanVal' = ReplaceByGroup("code", cleanVal, 1)
    /\ cleanStage' = "code"
    /\ UNCHANGED cleanIn

\* line 32
CleanEmphasis ==
    /\ cleanStage = "code"
    /\ cleanVal' = ReplaceByGroup("emphasis", cleanVal, 1)
    /\ cleanStage' = "done"
    /\ UNCHANGED cleanIn

NextCleanMarkdown ==
    \/ CleanLinks /\ UNCHANGED notClean
    \/ CleanImages /\ UNCHANGED notClean
    \/ CleanCode /\ UNCHANGED notClean
    \/ CleanEmphasis /\ UNCHANGED notClean

SpecCleanMarkdown == InitCleanMarkdown /\ [][NextCleanMarkdown]_vars

----------------------------------------------------------------------------
(* Alert blockquotes: remarkAlerts, src/components/MarkdownRenderer.tsx    *)
(* 14-44, and the callout script, src/utils/exportUtils.ts:285-302.  A     *)
(* blockquote is the sequence of its child blocks; a paragraph has inline  *)
(* children: text nodes and <strong> elements around a text.               *)

UpperOf ==
    [c \in Lower |-> UpperLetters[CHOOSE i \in 1..26 : LowerLetters[i] = c]]

ToUpperCase(s) == [i \in 1..Len(s) |-> IF s[i] \in DOMAIN UpperOf THEN UpperOf[s[i]] ELSE s[i]]

AlertKinds ==
    { <<"N", "O", "T", "E">>,
      <<"T", "I", "P">>,
      <<"I", "M", "P", "O", "R", "T", "A", "N", "T">>,
      <<"W", "A", "R", "N", "I", "N", "G">>,
      <<"C", "A", "U", "T", "I", "O", "N">> }

\* s.match(/^\[!(NOTE|TIP|IMPORTANT|WARNING|CAUTION)\]/i): the group as
\* written in s and the length of the match.
AlertMatch(s) ==
    LET ks == { k \in AlertKinds :
                  /\ Len(s) >= Len(k) + 3
                  /\ s[1] = "["
                  /\ s[2] = "!"
                  /\ ToUpperCase(SubSeq(s, 3, 2 + Len(k))) = k
                  /\ s[3 + Len(k)] = "]" }
    IN  IF ks = {}
        THEN [ok |-> FALSE, group |-> <<>>, len |-> 0]
        ELSE LET k == CHOOSE x \in ks : TRUE
             IN  [ok |-> TRUE, group |-> SubSeq(s, 3, 2 + Len(k)), len |-> Len(k) + 3]

Text(value) == [type |-> "text", value |-> value]

Strong(value) == [type |-> "strong", value |-> value]

Paragraph(inlines) == [type |-> "paragraph", inlines |-> inlines]

CodeBlock == [type |-> "code", inlines |-> <<>>]

NoTag == <<>>

\* The text of a paragraph: the values of its inline children, joined.
RECURSIVE InlineText(_)
InlineText(inlines) ==
    IF inlines = <<>> THEN <<>> ELSE Head(inlines).value \o InlineText(Tail(inlines))

\* The transformer of remarkAlerts, lines 16-42, on one blockquote: the
\* data-alert-type it sets (NoTag: none) and the children afterwards.
remarkAlerts(children) ==
    LET untouched     == [tag |-> NoTag, children |-> children]
        firstChild    == children[1]
        firstTextNode == firstChild.inlines[1]
        content       == firstTextNode.value
        alertMatch    == AlertMatch(content)
        newText       == TrimStart(SubSeq(content, alertMatch.len + 1, Len(content)))
    IN  IF Len(children) = 0 THEN untouched
        ELSE IF firstChild.type # "paragraph" \/ Len(firstChild.inlines) = 0 THEN untouched
        ELSE IF firstTextNode.type # "text" THEN untouched
        ELSE IF alertMatch.ok
             THEN [tag |-> ToUpperCase(alertMatch.group),
                   children |-> [children EXCEPT ![1].inlines[1].value = newText]]
             ELSE untouched

OpenStrong == "<strong>"

CloseStrong == "</strong>"

\* firstP.innerHTML: the text nodes as they are (the texts have no
\* character innerHTML escapes), a <strong> element between its tags, each
\* tag one token.
RECURSIVE innerHTML(_)
innerHTML(inlines) ==
    IF inlines = <<>> THEN <<>>
    ELSE (IF Head(inlines).type = "strong"
          THEN <<OpenStrong>> \o Head(inlines).value \o <<CloseStrong>>
          ELSE Head(inlines).value) \o innerHTML(Tail(inlines))

\* The text content of markup: the tags are no part of it.
MarkupText(markup) == SelectSeq(markup, LAMBDA c : c \notin {OpenStrong, CloseStrong})

\* The callout script, lines 286-302, on one blockquote: the callout type
\* of the class it adds (NoTag: none) and the text content of the first
\* paragraph afterwards.
calloutScript(children) ==
    LET ps      == { i \in 1..Len(children) : children[i].type = "paragraph" }
        firstP  == children[Min(ps)]
        text    == Trim(InlineText(firstP.inlines))
        match   == AlertMatch(text)
        html    == innerHTML(firstP.inlines)
        newText == Trim(SubSeq(html, AlertMatch(html).len + 1, Len(html)))
    IN  IF ps = {} THEN [tag |-> NoTag, text |-> <<>>]
        ELSE IF match.ok
             THEN [tag |-> ToLowerCase(match.group), text |-> MarkupText(newText)]
             ELSE [tag |-> NoTag, text |-> InlineText(firstP.inlines)]

----------------------------------------------------------------------------
(* Specification SpecAlerts: one blockquote given to remarkAlerts and to   *)
(* the callout script of the artifact.                                     *)

Marker(kind) == <<"[", "!">> \o kind \o <<"]">>

BeCareful == <<" ", "B", "e", " ", "c", "a", "r", "e", "f", "u", "l">>

AlertTexts ==
    { Marker(k) \o BeCareful : k \in AlertKinds }
    \cup { Marker(<<"n", "o", "t", "e">>) \o <<" ", "x">>,
           Marker(<<"T", "i", "p">>),
           Marker(<<"N", "O", "T", "E">>) \o <<"x">>,
           Marker(<<"N", "O", "T", "E", "S">>) \o <<" ", "x">>,
           <<"x", " ">> \o Marker(<<"N", "O", "T", "E">>),
           <<"x">> }

ParagraphSet ==
    { <<Text(t)>> : t \in AlertTexts }
    \cup { <<Text(t), Strong(<<"b">>)>> : t \in AlertTexts }
    \cup { <<Strong(t)>> : t \in AlertTexts }
    \cup { <<Strong(Marker(k)), Text(<<" ", "x">>)>> : k \in AlertKinds }

QuoteSet ==
    { <<Paragraph(p)>> : p \in ParagraphSet }
    \cup { <<Paragraph(p), Paragraph(<<Text(<<"y">>)>>)>> : p \in ParagraphSet }
    \cup { <<CodeBlock>> }

InitAlerts ==
    /\ LiveIdle
    /\ EscapeIdle
    /\ ResizeIdle
    /\ SlugIdle
    /\ TocIdle
    /\ H1Idle
    /\ IdsIdle
    /\ EmIdle
    /\ ExportIdle
    /\ PassIdle
    /\ CleanIdle
    /\ quote \in QuoteSet
    /\ liveQuote = Null
    /\ exportQuote = Null

\* ReactMarkdown runs remarkAlerts on the tree (MarkdownRenderer.tsx:114).
LiveAlerts ==
    /\ liveQuote = Null
    /\ LET r == remarkAlerts(quote)
       IN  liveQuote' = << [tag |-> r.tag,
                            text |-> IF r.children[1].type = "paragraph"
                                     THEN InlineText(r.children[1].inlines)
                                     ELSE <<>>] >>
    /\ UNCHANGED <<quote, exportQuote>>

\* The callout script runs on the blockquote marked has rendered.
ExportAlerts ==
    /\ exportQuote = Null
    /\ exportQuote' = <<calloutScript(quote)>>
    /\ UNCHANGED <<quote, liveQuote>>

NextAlerts ==
    \/ LiveAlerts /\ UNCHANGED notAlert
    \/ ExportAlerts /\ UNCHANGED notAlert

SpecAlerts == InitAlerts /\ [][NextAlerts]_vars

----------------------------------------------------------------------------
(* Pane resize: the resize effect of App, src/unnamed/part_000:19-49 and   *)
(* 116-119, and the resizer script of the artifact,                        *)
(* src/utils/exportUtils.ts:369-402.  A state update of App is followed by *)
(* the render and the effect it causes before the next pointer event is    *)
(* handled, so each event is one step.                                     *)

\* useState(300), part_000:19
InitialSidebarWidth == 300

\* part_000:27
MinSidebarWidth == 250

\* part_000:28
MaxSidebarWidth == 600

\* Mutant: the width has no lower limit.
handleMouseMoveNoMinimum(captured, width, clientX) ==
    IF ~captured THEN width
    ELSE IF clientX > MaxSidebarWidth THEN MaxSidebarWidth ELSE clientX

\* handleMouseMove, part_000:24-30, of the render that captured the given
\* isResizing: the sidebarWidth afterwards.
handleMouseMove(captured, width, clientX) ==
    IF ~captured THEN width
    ELSE LET low == IF clientX < MinSidebarWidth THEN MinSidebarWidth ELSE clientX
         IN  IF low > MaxSidebarWidth THEN MaxSidebarWidth ELSE low

\* Mutant: the cleanup of the effect removes nothing.
ResizeEffectNoCleanup(handlers, old, new) ==
    handlers \cup (IF new THEN {new} ELSE {})

\* The effect of part_000:23-49 when isResizing changes from old to new:
\* the cleanup of the previous run removes its handlers (lines 45-48), the
\* new run installs its own when isResizing (lines 38-43).
ResizeEffect(handlers, old, new) ==
    (handlers \ {old}) \cup (IF new THEN {new} ELSE {})

\* .sidebar { width: 300px }, exportUtils.ts:28
ExportInitialWidth == 300

\* exportUtils.ts:388
ExportMinWidth == 200

\* exportUtils.ts:389
ExportMaxWidth == 600

DragListeners == {"mousemove", "mouseup"}

\* mm, exportUtils.ts:385-393: the width of the sidebar afterwards (the
\* window widths are such that 60% of them is a whole number).
mm(x, w, clientX, winWidth) ==
    LET nw   == w + (clientX - x)
        low  == IF nw < ExportMinWidth THEN ExportMinWidth ELSE nw
        high == IF low > ExportMaxWidth THEN ExportMaxWidth ELSE low
        cap  == (winWidth * 6) \div 10
    IN  IF high > cap THEN cap ELSE high

\* mu, exportUtils.ts:394-400: the listeners on document afterwards.
mu(listeners) == listeners \ DragListeners

\* md, exportUtils.ts:375-384: the listeners on document afterwards.
md(listeners) == listeners \cup DragListeners

----------------------------------------------------------------------------
(* Specification SpecResize: pointer events on the interactive view and on *)
(* an opened artifact.                                                     *)

MouseXs == {0, 199, 200, 249, 250, 300, 420, 600, 601, 900}

InnerWidths == {800, 1600}

InitResize ==
    /\ LiveIdle
    /\ EscapeIdle
    /\ SlugIdle
    /\ TocIdle
    /\ H1Idle
    /\ IdsIdle
    /\ EmIdle
    /\ ExportIdle
    /\ PassIdle
    /\ CleanIdle
    /\ AlertIdle
    /\ sidebarWidth = InitialSidebarWidth
    /\ isResizing = FALSE
    /\ appHandlers = {}
    /\ appHeld = FALSE
    /\ appEvent = "none"
    /\ innerWidth \in InnerWidths
    /\ expWidth = ExportInitialWidth
    /\ dragX = 0
    /\ dragW = 0
    /\ expListeners = {}
    /\ expHeld = FALSE
    /\ expEvent = "none"

appVars == <<sidebarWidth, isResizing, appHandlers, appHeld, appEvent>>

expVars == <<innerWidth, expWidth, dragX, dragW, expListeners, expHeld, expEvent>>

\* mousedown on the divider: startResizing, part_000:116-119, then the
\* effect when isResizing has changed.
AppMouseDown ==
    /\ isResizing' = TRUE
    /\ appHandlers' = IF isResizing THEN appHandlers
                      ELSE ResizeEffect(appHandlers, isResizing, TRUE)
    /\ appHeld' = TRUE
    /\ appEvent' = "down"
    /\ UNCHANGED <<sidebarWidth, expVars>>

\* mousemove on document at clientX: the installed handleMouseMove, if any.
AppMouseMove(clientX) ==
    /\ sidebarWidth' = IF appHandlers = {} THEN sidebarWidth
                       ELSE handleMouseMove(CHOOSE c \in appHandlers : TRUE,
                                            sidebarWidth, clientX)
    /\ appEvent' = "move"
    /\ UNCHANGED <<isResizing, appHandlers, appHeld, expVars>>

\* mouseup on document: the installed handleMouseUp, if any (part_000:32-36),
\* then the effect when isResizing has changed.
AppMouseUp ==
    /\ isResizing' = IF appHandlers = {} THEN isResizing ELSE FALSE
    /\ appHandlers' = IF appHandlers # {} /\ isResizing
                      THEN ResizeEffect(appHandlers, isResizing, FALSE)
                      ELSE appHandlers
    /\ appHeld' = FALSE
    /\ appEvent' = "up"
    /\ UNCHANGED <<sidebarWidth, expVars>>

\* mousedown on the resizer of the artifact, which is at the right edge of
\* the sidebar: md.
ExpMouseDown ==
    /\ dragX' = expWidth
    /\ dragW' = expWidth
    /\ expListeners' = md(expListeners)
    /\ expHeld' = TRUE
    /\ expEvent' = "down"
    /\ UNCHANGED <<innerWidth, expWidth, appVars>>

\* mousemove on the document of the artifact at clientX: mm when installed.
ExpMouseMove(clientX) ==
    /\ expWidth' = IF "mousemove" \in expListeners
                   THEN mm(dragX, dragW, clientX, innerWidth)
                   ELSE expWidth
    /\ expEvent' = "move"
    /\ UNCHANGED <<innerWidth, dragX, dragW, expListeners, expHeld, appVars>>

\* mouseup on the document of the artifact: mu when installed.
ExpMouseUp ==
    /\ expListeners' = IF "mouseup" \in expListeners THEN mu(expListeners) ELSE expListeners
    /\ expHeld' = FALSE
    /\ expEvent' = "up"
    /\ UNCHANGED <<innerWidth, expWidth, dragX, dragW, appVars>>

NextResize ==
    \/ AppMouseDown /\ UNCHANGED notResize
    \/ \E clientX \in MouseXs : AppMouseMove(clientX) /\ UNCHANGED notResize
    \/ AppMouseUp /\ UNCHANGED notResize
    \/ ExpMouseDown /\ UNCHANGED notResize
    \/ \E clientX \in MouseXs : ExpMouseMove(clientX) /\ UNCHANGED notResize
    \/ ExpMouseUp /\ UNCHANGED notResize

SpecResize == InitResize /\ [][NextResize]_vars

----------------------------------------------------------------------------
(* Specification SpecEscapeHtml: a text is written into a markdown-raw     *)
(* block by a generator and read back by the script of the artifact.       *)

MaxEscapeLen == 4

EscapeAlphabet == {"&", "<", ">", DQ, "'", "l", "t", ";", CR, LF}

InitEscapeHtml ==
    /\ LiveIdle
    /\ SlugIdle
    /\ TocIdle
    /\ H1Idle
    /\ IdsIdle
    /\ EmIdle
    /\ ExportIdle
    /\ PassIdle
    /\ CleanIdle
    /\ AlertIdle
    /\ ResizeIdle
    /\ blockText \in SeqsUpTo(EscapeAlphabet, MaxEscapeLen)
    /\ escaped = <<>>
    /\ readBack = <<>>
    /\ escStage = "text"

\* ${escapeHtml(section.content)}, exportUtils.ts:451, and
\* ${escapeHtml(doc.fullContent)}, exportUtils.ts:495
WriteRawBlock ==
    /\ escStage = "text"
    /\ escaped' = escapeHtml(blockText)
    /\ escStage' = "written"
    /\ UNCHANGED <<blockText, readBack>>

\* const raw = div.textContent, exportUtils.ts:244
ReadRawBlock ==
    /\ escStage = "written"
    /\ readBack' = textContent(escaped)
    /\ escStage' = "read"
    /\ UNCHANGED <<blockText, escaped>>

NextEscapeHtml ==
    \/ WriteRawBlock /\ UNCHANGED notEscape
    \/ ReadRawBlock /\ UNCHANGED notEscape

SpecEscapeHtml == InitEscapeHtml /\ [][NextEscapeHtml]_vars

----------------------------------------------------------------------------
(* The interactive view, src/unnamed/part_000: the file load, the scroll   *)
(* spy of the continuous view and the navigation of the sectioned view;    *)
(* and the scroll spy of the artifact, src/utils/exportUtils.ts:306-367.   *)
(* An element top is its offset in the content less the scrollTop of the   *)
(* main pane.  A state update is followed by its render and its effects    *)
(* before the next event is handled.                                       *)

\* No element has the id of the TocItem.
NoElement == 0 - 1

Abs(n) == IF n < 0 THEN 0 - n ELSE n

\* triggerTop, part_000:71
triggerTop == 150

\* The loop of part_000:74-88 from item i on: currentId afterwards.  An
\* item with the empty id has no element (getElementById of the empty
\* string is null), so currentId is never the empty string.
RECURSIVE ScanToc(_, _, _, _, _)
ScanToc(items, elemTops, y, i, currentId) ==
    IF i > Len(items) THEN currentId
    ELSE IF elemTops[i] = NoElement
         THEN ScanToc(items, elemTops, y, i + 1, currentId)
         ELSE IF elemTops[i] - y <= triggerTop
              THEN ScanToc(items, elemTops, y, i + 1, <<items[i].id>>)
              ELSE currentId

\* Mutant: the bottom rule includes the distance 50.
handleScrollInclusive(mode, d, active, geometry, y) ==
    IF mode # "continuous" \/ d = Null THEN active
    ELSE LET items    == d[1].toc
             isBottom == Abs(geometry.scrollHeight - geometry.clientHeight - y) <= 50
         IN  IF isBottom /\ Len(items) > 0 THEN <<items[Len(items)].id>>
             ELSE LET currentId == ScanToc(items, geometry.tops, y, 1, Null)
                  IN  IF currentId # Null THEN currentId
                      ELSE IF Len(items) > 0 /\ y < triggerTop
                           THEN <<items[1].id>>
                           ELSE active

\* handleScroll, part_000:53-100, of the render with the given viewMode,
\* doc and activeSectionId: the activeSectionId afterwards.
handleScroll(mode, d, active, geometry, y) ==
    IF mode # "continuous" \/ d = Null THEN active
    ELSE LET items    == d[1].toc
             isBottom == Abs(geometry.scrollHeight - geometry.clientHeight - y) < 50
         IN  IF isBottom /\ Len(items) > 0 THEN <<items[Len(items)].id>>
             ELSE LET currentId == ScanToc(items, geometry.tops, y, 1, Null)
                  IN  IF currentId # Null THEN currentId
                      ELSE IF Len(items) > 0 /\ y < triggerTop
                           THEN <<items[1].id>>
                           ELSE active

\* Mutant: at the bottom the item after the active one is selected.
ScrollSpyAdvancing(mode, d, active, geometry, y) ==
    LET once == handleScroll(mode, d, active, geometry, y)
    IN  IF mode = "continuous" /\ d # Null /\ once # Null /\ once = active
           /\ Len(d[1].toc) > 1
        THEN LET i == CHOOSE k \in 1..Len(d[1].toc) : d[1].toc[k].id = once[1]
             IN  <<d[1].toc[(i % Len(d[1].toc)) + 1].id>>
        ELSE once

\* A scroll event or the initial check of the effect (part_000:102-107):
\* handleScroll, and when it has changed activeSectionId the effect of the
\* next render, which calls handleScroll again (part_000:114).
ScrollSpy(mode, d, active, geometry, y) ==
    LET once == handleScroll(mode, d, active, geometry, y)
    IN  IF once = active THEN once ELSE handleScroll(mode, d, once, geometry, y)

\* The h1, h2 and h3 of the artifact (exportUtils.ts:252), as indexes of
\* the TocItems: the headings that have an element.
Headers(geometry) == { i \in 1..Len(geometry.tops) : geometry.tops[i] # NoElement }

\* The loop of exportUtils.ts:326-337 from header i on.
RECURSIVE ScanHeaders(_, _, _, _, _)
ScanHeaders(items, elemTops, y, i, currentId) ==
    IF i > Len(items) THEN currentId
    ELSE IF elemTops[i] = NoElement
         THEN ScanHeaders(items, elemTops, y, i + 1, currentId)
         ELSE IF elemTops[i] - y <= 150
              THEN ScanHeaders(items, elemTops, y, i + 1, <<items[i].id>>)
              ELSE currentId

\* onScroll, exportUtils.ts:320-361: the hrefs of the nav items with the
\* class active afterwards.  The nav items are the TocItems (lines 501-512).
onScroll(items, active, geometry, y) ==
    LET H        == Headers(geometry)
        scanned  == ScanHeaders(items, geometry.tops, y, 1, Null)
        atBottom == geometry.scrollHeight - y <= geometry.clientHeight + 50
        bottomId == IF atBottom /\ H # {} THEN <<items[Max(H)].id>> ELSE scanned
        currentId == IF bottomId = Null /\ y < 150 /\ H # {}
                     THEN <<items[Min(H)].id>>
                     ELSE bottomId
    IN  IF currentId = Null THEN active
        ELSE { currentId[1] } \cap { items[i].id : i \in 1..Len(items) }

\* The scroll spy of the artifact is installed (exportUtils.ts:311).
SpyInstalled(items, geometry) == Len(items) > 0 /\ Headers(geometry) # {}

\* reader.onload, part_000:130-147: the ParsedDoc (every file is named f).
ParsedDoc(text) ==
    <<[fileName |-> <<"f">>,
       sections |-> parseMarkdownByH1(text),
       fullContent |-> text,
       toc |-> parseTOC(text)]>>

\* Lines 142-146 in the closure that captured viewMode: the activeSectionId.
InitialActiveId(captured, d, active) ==
    IF captured = "sectioned" /\ Len(d[1].sections) > 0 THEN <<d[1].sections[1].id>>
    ELSE IF captured = "continuous" /\ Len(d[1].toc) > 0 THEN <<d[1].toc[1].id>>
    ELSE active

\* doc.sections.findIndex(s => s.id === activeSectionId), part_000:273,
\* counted from 1 (0: none).
SectionIndex(d, active) ==
    LET hits == { i \in 1..Len(d[1].sections) : <<d[1].sections[i].id>> = active }
    IN  IF hits = {} THEN 0 ELSE Min(hits)

----------------------------------------------------------------------------
(* Specification SpecApp: the upload screen, file reads that complete      *)
(* later, the loaded view in both modes, and a continuous artifact opened  *)
(* beside it.                                                              *)

MaxReads == 1

LiveTexts ==
    { <<"f", "o", "o">>,
      <<"#", " ", "A">>,
      <<"#", " ">> \o Introduction,
      <<"#", " ", "A", LF, "x", LF, "#", " ", "B">>,
      <<"#", " ", "A", LF, "#", "#", " ", "s", LF, "#", "#", "#", " ", "t">> }

\* The ParsedDoc of each text, parsed once.
ParsedDocs == [text \in LiveTexts |-> ParsedDoc(text)]

ViewModes == {"sectioned", "continuous"}

\* Offsets of heading elements in the content, and the scroll offsets.
ElementOffsets == {100, 160, 600}

MainScrollOffsets == {0, 20, 150, 350, 351, 400}

\* The geometries of a main pane that shows n headings of the TOC: at most
\* one TocItem without element, the elements in document order.
Geometries(n) ==
    { [tops |-> t, scrollHeight |-> h, clientHeight |-> 300] :
        t \in { u \in [1..n -> ElementOffsets \cup {NoElement}] :
                  /\ Cardinality({ i \in 1..n : u[i] = NoElement }) <= 1
                  /\ \A i, j \in 1..n :
                         (i < j /\ u[i] # NoElement /\ u[j] # NoElement) => u[i] < u[j] },
        h \in {320, 700} }

NoGeometry == [tops |-> <<>>, scrollHeight |-> 0, clientHeight |-> 0]

\* The largest scrollTop of a pane.
MaxScrollTop(geometry) == geometry.scrollHeight - geometry.clientHeight

InitApp ==
    /\ SlugIdle
    /\ TocIdle
    /\ H1Idle
    /\ IdsIdle
    /\ EmIdle
    /\ ExportIdle
    /\ PassIdle
    /\ CleanIdle
    /\ AlertIdle
    /\ ResizeIdle
    /\ EscapeIdle
    /\ liveViewMode = "sectioned"
    /\ liveDoc = Null
    /\ activeSectionId = Null
    /\ reads = {}
    /\ layout = NoGeometry
    /\ mainScrollTop = 0
    /\ artifactOpen = FALSE
    /\ navActive = {}
    /\ artScrollTop = 0
    /\ liveEvent = "none"

artifactVars == <<artifactOpen, navActive, artScrollTop>>

\* The mode buttons of the upload screen, part_000:208 and 229.
AppSelectMode(mode) ==
    /\ liveDoc = Null
    /\ liveViewMode' = mode
    /\ liveEvent' = "mode"
    /\ UNCHANGED <<liveDoc, activeSectionId, reads, layout, mainScrollTop, artifactVars>>

\* handleFileUpload, part_000:122-150, up to reader.readAsText: the onload
\* closure holds the viewMode of this render.
AppChooseFile(text) ==
    /\ liveDoc = Null
    /\ Cardinality(reads) < MaxReads
    /\ reads' = reads \cup {[text |-> text, viewMode |-> liveViewMode]}
    /\ liveEvent' = "choose"
    /\ UNCHANGED <<liveViewMode, liveDoc, activeSectionId, layout, mainScrollTop, artifactVars>>

\* The scrollTop of the main pane after a load: the pane is mounted with
\* the document (part_000:196 and 392), and keeps its scrollTop, as far as
\* the new content allows, when a document was shown already.
LandingScrollTop(d, y, geometry) ==
    IF d = Null THEN 0 ELSE Min({y, MaxScrollTop(geometry)})

\* reader.onload, part_000:130-147, then the render of the document with
\* some geometry and the initial check of the scroll-spy effect.  An
\* artifact of the document shown before is followed no further.
ReaderOnload(r, geometry) ==
    /\ r \in reads
    /\ geometry \in Geometries(Len(ParsedDocs[r.text][1].toc))
    /\ reads' = reads \ {r}
    /\ liveDoc' = ParsedDocs[r.text]
    /\ layout' = geometry
    /\ mainScrollTop' = LandingScrollTop(liveDoc, mainScrollTop, geometry)
    /\ activeSectionId' =
           ScrollSpy(liveViewMode, ParsedDocs[r.text],
                     InitialActiveId(r.viewMode, ParsedDocs[r.text], activeSectionId),
                     geometry, LandingScrollTop(liveDoc, mainScrollTop, geometry))
    /\ artifactOpen' = FALSE
    /\ navActive' = {}
    /\ artScrollTop' = 0
    /\ liveEvent' = "load"
    /\ UNCHANGED liveViewMode

\* Mutant: the reset leaves activeSectionId as it is.
AppResetKeepsActive ==
    /\ liveDoc # Null
    /\ liveDoc' = Null
    /\ layout' = NoGeometry
    /\ mainScrollTop' = 0
    /\ artifactOpen' = FALSE
    /\ navActive' = {}
    /\ artScrollTop' = 0
    /\ liveEvent' = "reset"
    /\ UNCHANGED <<liveViewMode, reads, activeSectionId>>

\* handleReset, part_000:152-156
AppReset ==
    /\ liveDoc # Null
    /\ liveDoc' = Null
    /\ activeSectionId' = Null
    /\ layout' = NoGeometry
    /\ mainScrollTop' = 0
    /\ artifactOpen' = FALSE
    /\ navActive' = {}
    /\ artScrollTop' = 0
    /\ liveEvent' = "reset"
    /\ UNCHANGED <<liveViewMode, reads>>

\* A scroll event of the main pane at scrollTop y (y = mainScrollTop: the
\* event fires again with nothing changed).
MainScroll(y) ==
    /\ liveDoc # Null
    /\ y <= MaxScrollTop(layout)
    /\ mainScrollTop' = y
    /\ activeSectionId' = ScrollSpy(liveViewMode, liveDoc, activeSectionId, layout, y)
    /\ liveEvent' = IF y = mainScrollTop THEN "refire" ELSE "scroll"
    /\ UNCHANGED <<liveViewMode, liveDoc, reads, layout, artifactVars>>

\* An entry of the sidebar of the sectioned view is clicked: onSelect is
\* setActiveSectionId, part_000:373, given the id of the section.
AppSelectSection(i) ==
    /\ liveDoc # Null
    /\ liveViewMode = "sectioned"
    /\ i \in 1..Len(liveDoc[1].sections)
    /\ activeSectionId' = <<liveDoc[1].sections[i].id>>
    /\ liveEvent' = "select"
    /\ UNCHANGED <<liveViewMode, liveDoc, reads, layout, mainScrollTop, artifactVars>>

\* The Previous (step = -1) and Next (step = 1) buttons, part_000:292-323,
\* rendered when there is an active section and a section before or after
\* it; scrollTo top 0.
AppStepSection(step) ==
    /\ liveDoc # Null
    /\ liveViewMode = "sectioned"
    /\ SectionIndex(liveDoc, activeSectionId) # 0
    /\ SectionIndex(liveDoc, activeSectionId) + step \in 1..Len(liveDoc[1].sections)
    /\ activeSectionId' = <<liveDoc[1].sections[SectionIndex(liveDoc, activeSectionId) + step].id>>
    /\ mainScrollTop' = 0
    /\ liveEvent' = "step"
    /\ UNCHANGED <<liveViewMode, liveDoc, reads, layout, artifactVars>>

\* An entry of the sidebar of the continuous view is clicked: onSelect is
\* handleScrollTo, part_000:186-193, given the id of the TocItem; the
\* effect of the render checks the scroll position at once, the smooth
\* scroll shows as later scroll events.
AppScrollTo(i) ==
    /\ liveDoc # Null
    /\ liveViewMode = "continuous"
    /\ i \in 1..Len(liveDoc[1].toc)
    /\ activeSectionId' =
           IF <<liveDoc[1].toc[i].id>> = activeSectionId THEN activeSectionId
           ELSE ScrollSpy(liveViewMode, liveDoc, <<liveDoc[1].toc[i].id>>, layout, mainScrollTop)
    /\ liveEvent' = "scrollTo"
    /\ UNCHANGED <<liveViewMode, liveDoc, reads, layout, mainScrollTop, artifactVars>>

\* handleDownload, part_000:158-183; the artifact is opened with the
\* geometry of the main pane, and the initial check of its scroll spy
\* (exportUtils.ts:366) runs when the spy is installed.
AppDownload ==
    /\ liveDoc # Null
    /\ artifactOpen' = (liveViewMode = "continuous" /\ SpyInstalled(liveDoc[1].toc, layout))
    /\ navActive' = IF liveViewMode = "continuous" /\ SpyInstalled(liveDoc[1].toc, layout)
                    THEN onScroll(liveDoc[1].toc, {}, layout, 0)
                    ELSE {}
    /\ artScrollTop' = 0
    /\ liveEvent' = "download"
    /\ UNCHANGED <<liveViewMode, liveDoc, activeSectionId, reads, layout, mainScrollTop>>

\* A scroll event of the main pane of the artifact at scrollTop y.
ArtifactScroll(y) ==
    /\ artifactOpen
    /\ y <= MaxScrollTop(layout)
    /\ artScrollTop' = y
    /\ navActive' = onScroll(liveDoc[1].toc, navActive, layout, y)
    /\ liveEvent' = IF y = artScrollTop THEN "artifactRefire" ELSE "artifactScroll"
    /\ UNCHANGED <<liveViewMode, liveDoc, activeSectionId, reads, layout, mainScrollTop, artifactOpen>>

NextApp ==
    \/ \E mode \in ViewModes : AppSelectMode(mode) /\ UNCHANGED notLive
    \/ \E text \in LiveTexts : AppChooseFile(text) /\ UNCHANGED notLive
    \/ \E r \in reads :
           \E geometry \in Geometries(Len(ParsedDocs[r.text][1].toc)) :
               ReaderOnload(r, geometry) /\ UNCHANGED notLive
    \/ AppReset /\ UNCHANGED notLive
    \/ \E y \in MainScrollOffsets : MainScroll(y) /\ UNCHANGED notLive
    \/ \E i \in 1..2 : AppSelectSection(i) /\ UNCHANGED notLive
    \/ \E step \in {0 - 1, 1} : AppStepSection(step) /\ UNCHANGED notLive
    \/ \E i \in 1..3 : AppScrollTo(i) /\ UNCHANGED notLive
    \/ AppDownload /\ UNCHANGED notLive
    \/ \E y \in MainScrollOffsets : ArtifactScroll(y) /\ UNCHANGED notLive

SpecApp == InitApp /\ [][NextApp]_vars

----------------------------------------------------------------------------
(* The claims.                                                             *)

\* The cleaned slug of the j-th TocItem and its rank among the items with
\* the same cleaned slug.
TocSlug(j) == slugify(cleanMarkdown(toc[j].title))

TocRank(j) == Cardinality({ i \in 1..j : TocSlug(i) = TocSlug(j) })

\* The hashes of a line made of one, two or three '#', white space and text
\* (0 for any other line), and the text of such a line.
HeadingHashes(line) ==
    LET h == RunIn(line, 1, {"#"})
    IN  IF h \in 1..3 /\ At(line, h + 1) \in WhiteSpace /\ Len(line) >= h + 2
        THEN h ELSE 0

HeadingText(line) == SubSeq(line, HeadingHashes(line) + 2, Len(line))

HeadingLineIndexes(lines) == { i \in 1..Len(lines) : HeadingHashes(lines[i]) > 0 }

\* The k-th smallest element of a set of numbers.
Nth(S, k) == CHOOSE x \in S : Cardinality({ y \in S : y <= x }) = k

\* slugify as spec.md 4.1 words it, position by position: the characters of
\* t between its first and its last non-white-space character, lower-cased;
\* a white-space character gives a hyphen when it starts a run and nothing
\* otherwise; any other character is kept when it is a letter, a digit, an
\* underscore, a hyphen or in U+0080..U+FFFF, and dropped otherwise.
SlugDescribed(t) ==
    LET inner  == { i \in 1..Len(t) : t[i] \notin WhiteSpace }
        low(i) == IF t[i] \in Upper \cup {UpperEAcute} THEN LowerOf[t[i]] ELSE t[i]
        emits(i) ==
            /\ inner # {}
            /\ i >= Min(inner)
            /\ i <= Max(inner)
            /\ IF t[i] \in WhiteSpace
               THEN t[i - 1] \notin WhiteSpace
               ELSE low(i) \in Lower \cup Digit \cup {"_", "-"} \cup ExtUnicode
        E == { i \in 1..Len(t) : emits(i) }
    IN  [k \in 1..Cardinality(E) |->
            IF t[Nth(E, k)] \in WhiteSpace THEN "-" ELSE low(Nth(E, k))]

\* The lines made of one '#', white space and text.
H1LineIndexes(lines) == { i \in 1..Len(lines) : HeadingHashes(lines[i]) = 1 }

\* C1: the ids of the TocItems returned by one call of parseTOC are
\* pairwise distinct.
C1_TocIdsDistinct ==
    tocDone => \A i, j \in 1..Len(toc) : i # j => toc[i].id # toc[j].id

\* C2: for the same document and layout mode, every h1-h3 heading gets the
\* same id from the script of the exported artifact as from the
\* interactive MarkdownRenderer, in every section in sectioned mode.
C2_ExportIdsEqualLiveIds ==
    ExportDone =>
        \A b \in 1..Len(blocks) : liveIds[b] # Unset => exportIds[b] = liveIds[b]

\* C3: parseMarkdownByH1 returns exactly one section per level-1 heading
\* line, in document order, after an optional leading Introduction
\* section, each titled with the heading text of its line, trimmed.
C3_SectionPerH1Line ==
    h1Done =>
        LET H == H1LineIndexes(h1Lines)
        IN  \E intro \in {0, 1} :
                /\ Len(sections) = Cardinality(H) + intro
                /\ intro = 1 => sections[1].title = Introduction
                /\ \A k \in 1..Cardinality(H) :
                       sections[k + intro].title = Trim(HeadingText(h1Lines[Nth(H, k)]))

\* C4 as stated: the i-th returned section (from 0) has id section-i.
C4_SectionIdIsPosition ==
    h1Done => \A i \in 1..Len(sections) : sections[i].id = SectionPrefix \o NumToStr(i - 1)

\* C4 amended: the i-th returned section (from 0) has id section-i, unless
\* the empty leading Introduction section was dropped: then it has id
\* section-(i+1).
C4_SectionIdIsEmissionOrdinal ==
    h1Done =>
        \A i \in 1..Len(sections) :
            sections[i].id = SectionPrefix \o NumToStr(IF h1Dropped THEN i ELSE i - 1)

\* C4 witness: a parse that dropped the empty Introduction returned two
\* sections.
C4_Witness ==
    /\ h1Done
    /\ h1Dropped
    /\ Len(sections) = 2

\* C5: in parseTOC the first heading whose cleaned slug is s gets id s, and
\* the k-th heading (k >= 2) with the same cleaned slug gets id s-(k-1).
C5_TocDisambiguation ==
    \A j \in 1..Len(toc) :
        toc[j].id = IF TocRank(j) = 1
                    THEN TocSlug(j)
                    ELSE TocSlug(j) \o <<"-">> \o NumToStr(TocRank(j) - 1)

\* C5 witness: three headings with the same cleaned slug got a, a-1, a-2.
C5_Witness ==
    /\ tocDone
    /\ Len(toc) = 3
    /\ toc[1].id = <<"a">>
    /\ toc[2].id = <<"a", "-", "1">>
    /\ toc[3].id = <<"a", "-", "2">>

\* C6: for a heading with inline emphasis the id parseTOC derives from the
\* raw text equals the id the interactive renderer derives from the
\* rendered plain text.
C6_EmphasisIdsAgree ==
    (tocId # Unset /\ liveId # Unset) => tocId = liveId

\* C7: for every sequence of heading plain texts processed in order, the
\* ids of the standalone pipeline of the export (plain-object counters)
\* equal the ids of the live pipeline (Map counters).
C7_ObjectCountersEqualMapCounters ==
    (ExportDone /\ liveIds[1] # Unset) => exportIds[1] = liveIds[1]

\* C8: slugify(slugify(t)) = slugify(t): the second application returns
\* the result of the first.
C8_SlugifyIdempotent ==
    (slugPass = 2 /\ slugStage = "done") => slugVal = slugFirst

\* C8 witness: slugify was applied twice to a text it changes.
C8_Witness ==
    /\ slugPass = 2
    /\ slugStage = "done"
    /\ slugFirst # slugIn
    /\ slugFirst # <<>>

\* C9: slugify(t) is t lower-cased, trimmed, each white-space run replaced
\* by one hyphen and every other character removed unless it is a letter,
\* digit, underscore, hyphen or in U+0080..U+FFFF; the result has no white
\* space, no upper-case letter and no ASCII punctuation, and two CJK words
\* separated by a space give the two words joined by a hyphen.
C9_SlugifyContract ==
    (slugPass = 1 /\ slugStage = "done") =>
        /\ slugVal = SlugDescribed(slugIn)
        /\ \A i \in 1..Len(slugVal) :
               slugVal[i] \notin WhiteSpace \cup Upper \cup AsciiPunct
        /\ slugIn = <<CJK1, " ", CJK2>> => slugVal = <<CJK1, "-", CJK2>>
        /\ SelectSeq(slugVal, LAMBDA c : c \in {CJK1, CJK2})
               = SelectSeq(slugIn, LAMBDA c : c \in {CJK1, CJK2})

\* C9 witness: a text with an upper-case letter, a white-space run,
\* punctuation and a CJK character has been slugified.
C9_Witness ==
    /\ slugPass = 1
    /\ slugStage = "done"
    /\ \E i \in 1..Len(slugIn) : slugIn[i] \in Upper
    /\ \E i \in 1..Len(slugIn) : slugIn[i] \in WhiteSpace
    /\ \E i \in 1..Len(slugIn) : slugIn[i] = "!"
    /\ \E i \in 1..Len(slugVal) : slugVal[i] \in {CJK1, CJK2}

\* C10: parseTOC returns exactly one TocItem for each line made of one, two
\* or three '#', white space and text, in document order, with level the
\* number of '#' and title the heading text trimmed; other lines (four or
\* more '#' among them) yield none.
C10_TocItemPerHeadingLine ==
    tocDone =>
        LET H == HeadingLineIndexes(tocLines)
        IN  /\ Len(toc) = Cardinality(H)
            /\ \A k \in 1..Len(toc) :
                   /\ toc[k].level = HeadingHashes(tocLines[Nth(H, k)])
                   /\ toc[k].level \in 1..3
                   /\ toc[k].title = Trim(HeadingText(tocLines[Nth(H, k)]))

\* A line of white space only (the empty line among them).
IsBlankLine(line) == \A i \in 1..Len(line) : line[i] \in WhiteSpace

\* C11: when the document has a level-1 heading line and only blank lines
\* before the first one, parseMarkdownByH1 emits no section for the
\* preamble: the first returned section is the one of the first level-1
\* heading line: its content is the lines up to the next level-1 heading
\* line, its raw text the heading line and that content.
C11_BlankPreambleSuppressed ==
    LET H     == H1LineIndexes(h1Lines)
        first == Min(H)
        after == { i \in H : i > first }
        last  == IF after = {} THEN Len(h1Lines) ELSE Min(after) - 1
    IN  (/\ h1Done
         /\ H # {}
         /\ \A i \in 1..(first - 1) : IsBlankLine(h1Lines[i]))
        => /\ sections # <<>>
           /\ sections[1].content = Trim(Join(SubSeq(h1Lines, first + 1, last)))
           /\ sections[1].raw = <<"#", " ">> \o Trim(HeadingText(h1Lines[first]))
                                     \o <<LF, LF>> \o sections[1].content

\* C12: for a document without level-1 heading line (the empty document
\* among them) parseMarkdownByH1 returns exactly one section, titled
\* Introduction, whose content is the whole document text trimmed.
C12_NoHeadingOneIntroduction ==
    (h1Done /\ H1LineIndexes(h1Lines) = {}) =>
        /\ Len(sections) = 1
        /\ sections[1].title = Introduction
        /\ sections[1].content = Trim(Join(h1Lines))

\* C12 witness: a document of several lines, none a level-1 heading line,
\* one of them starting with '#', has been parsed into a section with text.
C12_Witness ==
    /\ h1Done
    /\ H1LineIndexes(h1Lines) = {}
    /\ Len(h1Lines) >= 2
    /\ \E i \in 1..Len(h1Lines) : At(h1Lines[i], 1) = "#"
    /\ Len(sections) = 1
    /\ sections[1].content # <<>>

\* C13: every returned section s has s.raw = "# " + s.title + two newlines
\* + s.content, also when the heading text begins with '#'.
C13_RawIsTitleAndContent ==
    h1Done =>
        \A i \in 1..Len(sections) :
            sections[i].raw = <<"#", " ">> \o sections[i].title \o <<LF, LF>> \o sections[i].content

\* The section divs of the opened artifact that are shown, and its
\* highlighted buttons.
ShownSections == { i \in 1..Len(dom) : dom[i].sectionContent /\ ~dom[i].hidden }

HighlightedButtons == { i \in 1..Len(dom) : dom[i].tag = "button" /\ dom[i].active }

\* C14: for a document that is empty or has no heading line parseTOC
\* returns the empty list and generateStandaloneHtml returns a document in
\* both modes: in sectioned mode a single Introduction block, in continuous
\* mode one unsectioned block and an empty sidebar list.
C14_NoHeadingDegrades ==
    (/\ doc # Null
     /\ download # Null
     /\ HeadingLineIndexes(Split(doc[1].fullContent)) = {})
    => /\ doc[1].toc = <<>>
       /\ Len(download[1].html.main) = 1
       /\ ~download[1].html.main[1].hidden
       /\ download[1].mode = "sectioned" =>
              /\ download[1].html.main[1].title = Introduction
              /\ textContent(download[1].html.main[1].markdownRaw) = Trim(doc[1].fullContent)
              /\ Len(download[1].html.sidebar) = 1
       /\ download[1].mode = "continuous" =>
              /\ download[1].html.main[1].divId = NoId
              /\ textContent(download[1].html.main[1].markdownRaw) = doc[1].fullContent
              /\ download[1].html.sidebar = <<>>

\* C14 witness: a document of several lines without heading line, one of
\* them with characters escapeHtml replaces, was exported in continuous mode.
C14_Witness ==
    /\ doc # Null
    /\ download # Null
    /\ download[1].mode = "continuous"
    /\ HeadingLineIndexes(Split(doc[1].fullContent)) = {}
    /\ Len(Split(doc[1].fullContent)) >= 2
    /\ \E i \in 1..Len(doc[1].fullContent) : doc[1].fullContent[i] = "<"

\* C15: in the sectioned export only the first section is shown at first,
\* and after any clicks on sidebar, Previous or Next buttons exactly one
\* section is shown, the one last clicked, its sidebar button is the only
\* highlighted one and (right after the click) the main pane is at
\* scrollTop 0.
C15_OneSectionShown ==
    (lastEvent # "none" /\ download # Null /\ download[1].mode = "sectioned" /\ dom # <<>>) =>
        IF lastClicked = Unset
        THEN /\ ShownSections = { Min({ i \in 1..Len(dom) : dom[i].sectionContent }) }
             /\ HighlightedButtons = {1}
        ELSE /\ \E i \in 1..Len(dom) :
                    /\ dom[i].sectionContent
                    /\ dom[i].id = SectionPrefix \o lastClicked
                    /\ ShownSections = {i}
             /\ \E i \in 1..Len(dom) :
                    /\ dom[i].tag = "button"
                    /\ dom[i].switchTo = lastClicked
                    /\ HighlightedButtons = {i}
             /\ lastEvent = "click" => scrollTop = 0

\* The ids and the counters a pass of the pipeline has after n headings
\* when no other pass touches its counters.
RECURSIVE AloneFrom(_, _, _, _)
AloneFrom(pipeline, i, n, acc) ==
    IF i > n THEN acc
    ELSE LET r == PassHeading(pipeline, acc.counts, passHeads[i])
         IN  AloneFrom(pipeline, i + 1, n, [ids |-> Append(acc.ids, r.id), counts |-> r.counts])

Alone(pipeline, n) == AloneFrom(pipeline, 1, n, [ids |-> <<>>, counts |-> <<>>])

PassDone(p) == passes[p].pos > Len(passHeads)

\* C16: parsing or rendering the same document any number of times gives
\* the same ids every time: every pass starts from an empty counter map and
\* no pass reads a counter another pass wrote.
C16_PassesIndependent ==
    /\ \A p \in 1..Len(passes) :
           /\ passes[p].pos = 1 => passes[p].slugCounts = <<>>
           /\ passes[p].ids = Alone(passes[p].pipeline, passes[p].pos - 1).ids
           /\ DOMAIN passes[p].slugCounts
                  = DOMAIN Alone(passes[p].pipeline, passes[p].pos - 1).counts
    /\ \A p, q \in 1..Len(passes) :
           (/\ PassDone(p)
            /\ PassDone(q)
            /\ passes[p].pipeline = passes[q].pipeline) => passes[p].ids = passes[q].ids

\* C16 witness: two passes of the same pipeline are done on a document
\* whose second heading repeats the slug of the first.
C16_Witness ==
    /\ Len(passes) = 2
    /\ PassDone(1)
    /\ PassDone(2)
    /\ passes[1].pipeline = passes[2].pipeline
    /\ Len(passes[1].ids) = 2
    /\ passes[1].ids[2] = <<"a", "-", "1">>

\* C17: cleanMarkdown replaces an image construct `![alt](url)` with
\* non-empty alt by alt alone, and a link `[text](url)` by text.
C17_ImageAndLinkCollapsed ==
    (cleanStage = "done" /\ cleanIn[1].text # <<>>) =>
        cleanVal = cleanIn[1].pre \o cleanIn[1].text \o cleanIn[1].post

\* C18: a blockquote whose first paragraph's text starts with [!NOTE],
\* [!TIP], [!IMPORTANT], [!WARNING] or [!CAUTION] in any letter case is
\* tagged with that kind by the interactive renderer and by the script of
\* the artifact, and both remove the marker from the visible text; a
\* blockquote without such a leading marker is tagged by neither.
C18_AlertsAgree ==
    (liveQuote # Null /\ exportQuote # Null) =>
        LET text == IF quote[1].type = "paragraph" THEN InlineText(quote[1].inlines) ELSE <<>>
            m    == AlertMatch(text)
            rest == Trim(SubSeq(text, m.len + 1, Len(text)))
        IN  IF m.ok
            THEN /\ liveQuote[1].tag = ToUpperCase(m.group)
                 /\ exportQuote[1].tag = ToLowerCase(m.group)
                 /\ Trim(liveQuote[1].text) = rest
                 /\ Trim(exportQuote[1].text) = rest
            ELSE /\ liveQuote[1].tag = NoTag
                 /\ exportQuote[1].tag = NoTag

\* C19: in the interactive view the sidebar width is between 250 and 600
\* pixels in every reachable state, whatever mouse-down, mouse-move and
\* mouse-up events occur, and it is 300 before any of them.
C19_SidebarWidthInRange ==
    /\ sidebarWidth >= 250
    /\ sidebarWidth <= 600
    /\ appEvent = "none" => sidebarWidth = 300

\* C19 witness: during a drag a move left of the lower limit has set the
\* width to the lower limit.
C19_Witness ==
    /\ appEvent = "move"
    /\ isResizing
    /\ sidebarWidth = 250

\* C20: pointer moves change the sidebar width only between a mouse-down
\* on the divider and the next mouse-up; before any drag and after the
\* release the move and up listeners are not installed and a move leaves
\* the width unchanged, in the interactive view and in the artifact.
C20_WidthChangesOnlyWhileDragging ==
    /\ [](/\ appHandlers # {} <=> appHeld
          /\ expListeners # {} <=> expHeld)
    /\ [][/\ sidebarWidth' # sidebarWidth => (appHeld /\ appEvent' = "move")
          /\ expWidth' # expWidth => (expHeld /\ expEvent' = "move")]_vars

\* C20 witness: in both views a drag has changed the width and a move after
\* the release has left it as it was.
C20_Witness ==
    /\ appEvent = "move"
    /\ ~appHeld
    /\ sidebarWidth # InitialSidebarWidth
    /\ expEvent = "move"
    /\ ~expHeld
    /\ expWidth # ExportInitialWidth

\* C21: pane resizing in the artifact behaves as in the interactive view:
\* while a drag is in progress in both, every pointer position sets the
\* same sidebar width in both.
C21_ResizeAgrees ==
    (appHeld /\ expHeld) =>
        \A clientX \in MouseXs :
            handleMouseMove(TRUE, sidebarWidth, clientX)
                = mm(dragX, dragW, clientX, innerWidth)

\* C27: parseMarkdownByH1 returns a non-empty list of sections for every
\* input text.
C27_SectionsNonEmpty == h1Done => sections # <<>>

\* C28: the lines for which parseTOC emits a level-1 TocItem are exactly
\* the lines at which parseMarkdownByH1 starts a new section, with LF and
\* with CRLF line endings.
C28_SameLevelOneLines ==
    h1Done =>
        { i \in 1..Len(h1Lines) : IsH1Line(h1Lines[i]) }
            = { i \in 1..Len(h1Lines) :
                  headerRegex(h1Lines[i]).ok /\ headerRegex(h1Lines[i]).hashes = 1 }

\* C30: for every section s returned by parseMarkdownByH1,
\* parseMarkdownByH1(s.raw) returns exactly one section, with the title and
\* the content of s.
C30_RawRoundTrips ==
    h1Done =>
        \A i \in 1..Len(sections) :
            LET again == parseMarkdownByH1(sections[i].raw)
            IN  /\ Len(again) = 1
                /\ again[1].title = sections[i].title
                /\ again[1].content = sections[i].content

\* C23: the text read back from the block holding escapeHtml(s) equals s,
\* and escapeHtml(s) contains none of the characters < > " ' and contains
\* '&' only as the first character of one of its five entities.
C23_RawBlockCarriesText ==
    escStage = "read" =>
        /\ readBack = blockText
        /\ \A p \in 1..Len(escaped) :
               /\ escaped[p] \notin {"<", ">", DQ, "'"}
               /\ escaped[p] = "&" =>
                      \E k \in 1..Len(CharRefs) : StartsWithAt(escaped, p, CharRefs[k].ref)

\* C22: the scroll-spy handler is idempotent: a scroll event that finds the
\* heading positions and the scroll offset as the last firing left them
\* leaves activeSectionId unchanged in the interactive view, and the set of
\* nav items with the class active unchanged in the artifact.
C22_ScrollSpyIdempotent ==
    [][/\ liveEvent' = "refire" => activeSectionId' = activeSectionId
       /\ liveEvent' = "artifactRefire" => navActive' = navActive]_vars

\* C22 witness: both panes are scrolled away from the top with a heading
\* marked, and the handler of the artifact has fired again.
C22_Witness ==
    /\ liveEvent = "artifactRefire"
    /\ artScrollTop > 0
    /\ navActive # {}
    /\ liveViewMode = "continuous"
    /\ mainScrollTop > 0
    /\ activeSectionId # Null

\* C24: the ParsedDoc changes only when a file read completes, to the newly
\* parsed value, and on reset, which makes it none and clears the active
\* id; scroll, selection in the sidebar, Previous and Next, and export
\* leave every field of it unchanged.
C24_DocChangesOnLoadAndReset ==
    [][/\ liveDoc' # liveDoc =>
              \/ liveEvent' = "load" /\ \E r \in reads : liveDoc' = ParsedDoc(r.text)
              \/ liveEvent' = "reset"
       /\ liveEvent' = "reset" => (liveDoc' = Null /\ activeSectionId' = Null)
       /\ liveEvent' \in {"scroll", "refire", "select", "step", "scrollTo", "download",
                          "artifactScroll", "artifactRefire"}
              => liveDoc' = liveDoc]_vars

\* C24 witness: a document with sections and TocItems is loaded, an id is
\* active and the document has been exported.
C24_Witness ==
    /\ liveEvent = "download"
    /\ liveDoc # Null
    /\ Len(liveDoc[1].sections) = 2
    /\ Len(liveDoc[1].toc) = 2
    /\ activeSectionId # Null

\* The activeSectionId after a scroll event at scroll offset y as C25 words
\* it; "within 50 pixels of its bottom" is read as less than 50 pixels.
ActiveAsDescribed(mode, d, active, geometry, y) ==
    IF mode # "continuous" \/ d = Null THEN active
    ELSE IF d[1].toc = <<>> THEN active
    ELSE LET items == d[1].toc
             n     == Len(items)
             has(i) == geometry.tops[i] # NoElement
             below == { i \in 1..n : has(i) /\ geometry.tops[i] - y > 150 }
             stop  == IF below = {} THEN n + 1 ELSE Min(below)
             above == { i \in 1..(stop - 1) : has(i) /\ geometry.tops[i] - y <= 150 }
         IN  IF geometry.scrollHeight - geometry.clientHeight - y < 50
             THEN <<items[n].id>>
             ELSE IF above # {} THEN <<items[Max(above)].id>>
             ELSE IF y < 150 THEN <<items[1].id>>
             ELSE active

\* C25: after a scroll event in the interactive view the active id is, in
\* continuous mode with a non-empty TOC: the id of the last TocItem when
\* the pane is within 50 pixels of its bottom; otherwise the id of the last
\* TocItem, scanning in order up to the first item whose element is below
\* the 150-pixel trigger line, whose element top is at or above the line;
\* the id of the first TocItem if there is none and the scroll offset is
\* below 150; and in every other case, and in sectioned mode, unchanged.
C25_ActiveAfterScroll ==
    [][liveEvent' \in {"scroll", "refire"} =>
           activeSectionId' =
               ActiveAsDescribed(liveViewMode, liveDoc, activeSectionId, layout, mainScrollTop')]_vars

\* C25 witness: a scroll of the continuous view has made active a TocItem
\* that is neither the first nor the last, away from the bottom.
C25_Witness ==
    /\ liveEvent = "scroll"
    /\ liveViewMode = "continuous"
    /\ liveDoc # Null
    /\ Len(liveDoc[1].toc) = 3
    /\ activeSectionId = <<liveDoc[1].toc[2].id>>
    /\ MaxScrollTop(layout) - mainScrollTop >= 50

\* C26: for the heading positions, scroll offset, scroll height and client
\* height of the open artifact, when every TocItem has its element, onScroll
\* marks the heading that handleScroll makes active, also near the bottom.
C26_ScrollSpyAgrees ==
    (artifactOpen /\ Headers(layout) = 1..Len(layout.tops)) =>
        LET a == handleScroll("continuous", liveDoc, Null, layout, artScrollTop)
            n == onScroll(liveDoc[1].toc, {}, layout, artScrollTop)
        IN  n = IF a = Null THEN {} ELSE {a[1]}

\* C29: once a document with at least one section is loaded and the view
\* mode is sectioned, the active id is the id of one of its sections; in
\* continuous mode with a non-empty TOC it is the id of a TocItem.
C29_ActiveIdFitsMode ==
    liveDoc # Null =>
        /\ (liveViewMode = "sectioned" /\ liveDoc[1].sections # <<>>)
               => \E i \in 1..Len(liveDoc[1].sections) :
                      activeSectionId = <<liveDoc[1].sections[i].id>>
        /\ (liveViewMode = "continuous" /\ liveDoc[1].toc # <<>>)
               => \E i \in 1..Len(liveDoc[1].toc) :
                      activeSectionId = <<liveDoc[1].toc[i].id>>

====
